---- MODULE Spec2Model ----
(***************************************************************************)
(* A model of the colour tooling suite: colour-text parsing (color-utils), *)
(* the main page's colour state, the RGB <-> HSL conversions, the pixel     *)
(* clustering engine and the gradient generators.                          *)
(*                                                                         *)
(* Texts are sequences of one-character strings, so that the regular       *)
(* expressions, trim(), toUpperCase(), parseInt() and toString(16) of the  *)
(* source are modelled by what they do to the characters.                  *)
(* Floating-point expressions are computed as exact rationals n/d over the *)
(* integers; Math.round(n/d) is floor(n/d + 1/2).                          *)
(***************************************************************************)
EXTENDS Integers, Sequences, FiniteSets, TLC

VARIABLES
    inputColor,    \* page: useState inputColor (a text)
    colorData,     \* page: useState colorData
    colorHistory,  \* page: useState colorHistory (sequence of texts)
    mounted,       \* page: TRUE once the mount effect has run
    pending,       \* page: the events a drawn session has still to deliver
    parse,         \* processColor applied to one drawn text
    conv,          \* one RGB -> HSL -> RGB conversion chain
    run,           \* one image analysis run
    grad,          \* one gradient generation from a list of colours
    contrast       \* contrast checker: one ratio and its evaluation

vars == <<inputColor, colorData, colorHistory, mounted, pending, parse, conv, run, grad, contrast>>

(***************************************************************************)
(* Characters                                                              *)
(***************************************************************************)
LowerChars ==
    <<"a","b","c","d","e","f","g","h","i","j","k","l","m",
      "n","o","p","q","r","s","t","u","v","w","x","y","z">>

UpperChars ==
    <<"A","B","C","D","E","F","G","H","I","J","K","L","M",
      "N","O","P","Q","R","S","T","U","V","W","X","Y","Z">>

DigitChars == <<"0","1","2","3","4","5","6","7","8","9">>

HexLowerChars == DigitChars \o SubSeq(LowerChars, 1, 6)

HexUpperChars == DigitChars \o SubSeq(UpperChars, 1, 6)

WhitespaceChars == {" ", "\t", "\n"}

Range(s) == {s[i] : i \in 1..Len(s)}

IsDigit(c) == c \in Range(DigitChars)

\* [A-Fa-f0-9], which is also [a-f\d] under the i flag
IsHexDigit(c) == c \in Range(HexLowerChars) \cup Range(HexUpperChars)

\* the value of each hexadecimal digit
HexValues ==
    [c \in Range(HexLowerChars) \cup Range(HexUpperChars) |->
        CHOOSE v \in 0..15 : HexLowerChars[v + 1] = c \/ HexUpperChars[v + 1] = c]

HexVal(c) == HexValues[c]

DigitVal(c) == HexValues[c]

\* the upper-case letter of each lower-case letter
UpperOfLower == [c \in Range(LowerChars) |-> UpperChars[CHOOSE i \in 1..26 : LowerChars[i] = c]]

\* String.prototype.toUpperCase on one character
UpperChar(c) == IF c \in DOMAIN UpperOfLower THEN UpperOfLower[c] ELSE c

ToUpperCase(t) == [i \in 1..Len(t) |-> UpperChar(t[i])]

RECURSIVE TrimStart(_)
TrimStart(t) ==
    IF t # <<>> /\ Head(t) \in WhitespaceChars THEN TrimStart(Tail(t)) ELSE t

RECURSIVE TrimEnd(_)
TrimEnd(t) ==
    IF t # <<>> /\ t[Len(t)] \in WhitespaceChars
    THEN TrimEnd(SubSeq(t, 1, Len(t) - 1))
    ELSE t

\* String.prototype.trim
Trim(t) == TrimEnd(TrimStart(t))

\* Number.parseInt(text) of a run of decimal digits
RECURSIVE ParseDec(_)
ParseDec(t) ==
    IF t = <<>> THEN 0
    ELSE 10 * ParseDec(SubSeq(t, 1, Len(t) - 1)) + DigitVal(t[Len(t)])

\* Number.parseInt(text, 16) of a run of hexadecimal digits
RECURSIVE ParseHex(_)
ParseHex(t) ==
    IF t = <<>> THEN 0
    ELSE 16 * ParseHex(SubSeq(t, 1, Len(t) - 1)) + HexVal(t[Len(t)])

\* `${n}`: the decimal text of a natural number
RECURSIVE DecText(_)
DecText(n) ==
    IF n < 10 THEN <<DigitChars[n + 1]>>
    ELSE DecText(n \div 10) \o <<DigitChars[(n % 10) + 1]>>

\* n.toString(16): the lower-case hexadecimal text of a natural number
RECURSIVE ToString16(_)
ToString16(n) ==
    IF n < 16 THEN <<HexLowerChars[n + 1]>>
    ELSE ToString16(n \div 16) \o <<HexLowerChars[(n % 16) + 1]>>

StartsWith(t, p) == Len(t) >= Len(p) /\ SubSeq(t, 1, Len(p)) = p

(***************************************************************************)
(* src/lib/color-utils.ts                                                  *)
(***************************************************************************)
NoText == <<>>

\* the text after the optional leading '#' of /^#?.../
AfterHash(t) == IF t # <<>> /\ Head(t) = "#" THEN Tail(t) ELSE t

AllHexDigits(t) == \A i \in 1..Len(t) : IsHexDigit(t[i])

\* hexToRgb's regular expression /^#?([a-f\d]{2})([a-f\d]{2})([a-f\d]{2})$/i
HexPairsMatch(t) == Len(AfterHash(t)) = 6 /\ AllHexDigits(AfterHash(t))

RgbText(r, g, b) ==
    <<"r","g","b","(">> \o DecText(r) \o <<","," ">> \o DecText(g)
        \o <<","," ">> \o DecText(b) \o <<")">>

\* hexToRgb: the "rgb(r, g, b)" text, or NoText for null
hexToRgb(hex) ==
    IF ~HexPairsMatch(hex) THEN NoText
    ELSE LET d == AfterHash(hex)
         IN  RgbText(ParseHex(SubSeq(d, 1, 2)), ParseHex(SubSeq(d, 3, 4)),
                     ParseHex(SubSeq(d, 5, 6)))

\* rgb.match(/\d+/g): the maximal runs of decimal digits, in order
RECURSIVE DigitRuns(_, _)
DigitRuns(t, cur) ==
    IF t = <<>> THEN (IF cur = <<>> THEN <<>> ELSE <<cur>>)
    ELSE IF IsDigit(Head(t)) THEN DigitRuns(Tail(t), Append(cur, Head(t)))
    ELSE (IF cur = <<>> THEN <<>> ELSE <<cur>>) \o DigitRuns(Tail(t), <<>>)

\* "#" + ((1 << 24) + (r << 16) + (g << 8) + b).toString(16).slice(1)
HexOfChannels(r, g, b) ==
    <<"#">> \o Tail(ToString16(16777216 + r * 65536 + g * 256 + b))

\* rgbToHex (of a text): the lower-case "#rrggbb" text, or NoText for null
rgbToHex(rgb) ==
    LET result == DigitRuns(rgb, <<>>)
    IN  IF Len(result) # 3 THEN NoText
        ELSE LET r == ParseDec(result[1])
                 g == ParseDec(result[2])
                 b == ParseDec(result[3])
             IN  IF r > 255 \/ g > 255 \/ b > 255 THEN NoText
                 ELSE HexOfChannels(r, g, b)

\* isValidHex: /^#?([A-Fa-f0-9]{6}|[A-Fa-f0-9]{3})$/
isValidHex(hex) ==
    /\ Len(AfterHash(hex)) \in {6, 3}
    /\ AllHexDigits(AfterHash(hex))

\* the position after a run of \s* starting at position i
RECURSIVE SkipSpaces(_, _)
SkipSpaces(t, i) ==
    IF i <= Len(t) /\ t[i] \in WhitespaceChars THEN SkipSpaces(t, i + 1) ELSE i

\* the position after a greedy run of \d starting at position i
RECURSIVE SkipDigits(_, _)
SkipDigits(t, i) ==
    IF i <= Len(t) /\ IsDigit(t[i]) THEN SkipDigits(t, i + 1) ELSE i

\* the assertion $ (no m flag): position i is the end of the input
AtEnd(t, i) == i = Len(t) + 1

\* One channel of the pattern, \s*(\d+)\s* from position i: the capture and
\* the position after it, or ok = FALSE.
Channel(t, i) ==
    LET a == SkipSpaces(t, i)
        b == SkipDigits(t, a)
    IN  [ok |-> b > a, text |-> SubSeq(t, a, b - 1), next |-> SkipSpaces(t, b)]

Comma(t, i) == i <= Len(t) /\ t[i] = ","

\* isValidRgb's regular expression, as written in the source:
\*   /^rgb$$\s*(\d+)\s*,\s*(\d+)\s*,\s*(\d+)\s*$$$/
\* After "rgb" come two end-of-input assertions, then the three channels,
\* then three end-of-input assertions. The captures, or ok = FALSE.
RgbRegexMatch(t) ==
    IF ~(StartsWith(t, <<"r","g","b">>) /\ AtEnd(t, 4) /\ AtEnd(t, 4))
    THEN [ok |-> FALSE]
    ELSE LET r == Channel(t, 4)
         IN  IF ~(r.ok /\ Comma(t, r.next)) THEN [ok |-> FALSE]
             ELSE LET g == Channel(t, r.next + 1)
                  IN  IF ~(g.ok /\ Comma(t, g.next)) THEN [ok |-> FALSE]
                      ELSE LET b == Channel(t, g.next + 1)
                           IN  IF ~(b.ok /\ AtEnd(t, b.next) /\ AtEnd(t, b.next)
                                        /\ AtEnd(t, b.next))
                               THEN [ok |-> FALSE]
                               ELSE [ok |-> TRUE, r |-> r.text, g |-> g.text,
                                     b |-> b.text]

isValidRgb(rgb) ==
    LET match == RgbRegexMatch(rgb)
    IN  IF ~match.ok THEN FALSE
        ELSE ParseDec(match.r) <= 255 /\ ParseDec(match.g) <= 255
                /\ ParseDec(match.b) <= 255

detectColorFormat(color) ==
    LET trimmedColor == Trim(color)
    IN  IF isValidHex(trimmedColor) THEN "hex"
        ELSE IF isValidRgb(trimmedColor) THEN "rgb"
        ELSE "invalid"

Rejected(msg) == [hex |-> NoText, rgb |-> NoText, isValid |-> FALSE, error |-> msg]

Accepted(hex, rgb) == [hex |-> hex, rgb |-> rgb, isValid |-> TRUE, error |-> ""]

\* A slip in the hexadecimal branch: the normalised text is returned although
\* hexToRgb found no channels.
processColorKeepsHex(color) ==
    LET trimmedColor == Trim(color)
        format == detectColorFormat(trimmedColor)
    IN  IF format = "invalid"
        THEN Rejected("Formato de color invalido. Use #RRGGBB o rgb(r, g, b)")
        ELSE IF format = "hex"
        THEN LET normalizedHex ==
                     IF StartsWith(trimmedColor, <<"#">>) THEN trimmedColor
                     ELSE <<"#">> \o trimmedColor
             IN  [hex |-> ToUpperCase(normalizedHex), rgb |-> hexToRgb(normalizedHex),
                  isValid |-> hexToRgb(normalizedHex) # NoText,
                  error |-> IF hexToRgb(normalizedHex) = NoText
                            THEN "Color hexadecimal invalido" ELSE ""]
        ELSE Rejected("Color RGB invalido")

\* A slip in the hexadecimal branch: the text is upper-cased but the '#' is
\* not prepended.
processColorNoHash(color) ==
    LET trimmedColor == Trim(color)
    IN  IF detectColorFormat(trimmedColor) = "hex" /\ hexToRgb(trimmedColor) # NoText
        THEN Accepted(ToUpperCase(trimmedColor), hexToRgb(trimmedColor))
        ELSE Rejected("Formato de color invalido. Use #RRGGBB o rgb(r, g, b)")

processColor(color) ==
    LET trimmedColor == Trim(color)
        format == detectColorFormat(trimmedColor)
    IN  IF format = "invalid"
        THEN Rejected("Formato de color invalido. Use #RRGGBB o rgb(r, g, b)")
        ELSE IF format = "hex"
        THEN LET normalizedHex ==
                     IF StartsWith(trimmedColor, <<"#">>) THEN trimmedColor
                     ELSE <<"#">> \o trimmedColor
                 rgbValue == hexToRgb(normalizedHex)
             IN  IF rgbValue = NoText
                 THEN Rejected("Color hexadecimal invalido")
                 ELSE Accepted(ToUpperCase(normalizedHex), rgbValue)
        ELSE LET hexValue == rgbToHex(trimmedColor)
             IN  IF hexValue = NoText
                 THEN Rejected("Color RGB invalido")
                 ELSE Accepted(ToUpperCase(hexValue), trimmedColor)

(***************************************************************************)
(* The main page (ColorConverter): inputColor, colorData, colorHistory     *)
(***************************************************************************)
HistoryLimit == 10

\* A slip in addToHistory: the new history is not cut to the limit.
addToHistoryUncut(prev, color) == <<color>> \o SelectSeq(prev, LAMBDA c : c # color)

\* addToHistory: the colour moves to the front, at most HistoryLimit are kept
addToHistory(prev, color) ==
    LET newHistory == <<color>> \o SelectSeq(prev, LAMBDA c : c # color)
    IN  SubSeq(newHistory, 1, IF Len(newHistory) < HistoryLimit THEN Len(newHistory)
                              ELSE HistoryLimit)

\* useEffect(..., [inputColor]): the colour data after the effect ran for `input`
EffectColorData(input, data) ==
    IF Trim(input) # <<>> THEN processColor(input) ELSE data

\* A slip in the effect: the processed hex is recorded without the isValid test.
EffectHistoryUnguarded(input, history) ==
    IF Trim(input) # <<>>
    THEN addToHistory(history, processColor(input).hex)
    ELSE history

\* useEffect(..., [inputColor]): the history after the effect ran for `input`
EffectHistory(input, history) ==
    IF Trim(input) # <<>> /\ processColor(input).isValid
    THEN addToHistory(history, processColor(input).hex)
    ELSE history

InitialInput == <<"#","3","b","8","2","f","6">>

InitialColorData ==
    [hex |-> InitialInput, rgb |-> RgbText(59, 130, 246), isValid |-> TRUE, error |-> ""]

IdleResult == [hex |-> NoText, rgb |-> NoText, isValid |-> FALSE, error |-> ""]

\* Bounds of the texts drawn as inputs
MaxDigits == 6

HexAlphabet == {"0", "a", "F", "g"}

HexBodies == UNION {[1..n -> HexAlphabet] : n \in 0..MaxDigits}

Paddings == {<<>>, <<" ">>}

\* hexadecimal-looking texts: optional padding, optional '#', up to MaxDigits characters
HexTexts ==
    {pad \o hash \o body \o pad :
        pad \in Paddings, hash \in {<<>>, <<"#">>}, body \in HexBodies}

RgbChannels == {0, 59, 255, 256}

\* texts of the form rgb(r, g, b) and rgb(r,g,b)
RgbTexts ==
    {<<"r","g","b","(">> \o DecText(r) \o sep \o DecText(g) \o sep \o DecText(b) \o <<")">> :
        r \in RgbChannels, g \in RgbChannels, b \in RgbChannels,
        sep \in {<<",">>, <<","," ">>}}

OtherTexts == {<<>>, <<" ">>, <<"r","g","b">>, <<"r","e","d">>, <<"1",",","2",",","3">>}

ParseTexts == HexTexts \cup RgbTexts \cup OtherTexts

\* texts the page's inputs deliver: typed text, the native picker, swatches
PageTexts ==
    { InitialInput,
      <<"#","F","F","0","0","0","0">>, <<"f","f","0","0","0","0">>,
      <<"#","0","0","f","f","0","0">>, <<" ","#","0","0","0","0","F","F"," ">>,
      <<"#","f","0","0">>, <<"0","f","0">>,
      RgbText(255, 0, 0), RgbText(0, 0, 300),
      <<"#","f","f","0","0","0">>, <<"r","e","d">>, <<" ">>, <<>> }

PageIdle ==
    /\ inputColor = InitialInput
    /\ colorData = InitialColorData
    /\ colorHistory = <<>>
    /\ mounted = FALSE
    /\ pending = <<>>

ParseIdle == parse = [text |-> NoText, done |-> FALSE, result |-> IdleResult]

pageVars == <<inputColor, colorData, colorHistory, mounted, pending>>

\* The effect's first run, after the first render.
Mount ==
    /\ ~mounted
    /\ mounted' = TRUE
    /\ inputColor' = inputColor
    /\ colorData' = EffectColorData(inputColor, colorData)
    /\ colorHistory' = EffectHistory(inputColor, colorHistory)
    /\ UNCHANGED <<pending, parse, conv, run, grad, contrast>>

\* setInputColor(text) and the effect it triggers when the text changed.
SetInputColor(text) ==
    /\ mounted
    /\ text # inputColor
    /\ inputColor' = text
    /\ colorData' = EffectColorData(text, colorData)
    /\ colorHistory' = EffectHistory(text, colorHistory)
    /\ UNCHANGED <<mounted, parse, conv, run, grad, contrast>>

\* ColorInput, ColorPicker, ColorPalettes and the analysis swatches
ChangeInput ==
    /\ pending = <<>>
    /\ \E text \in PageTexts : SetInputColor(text)
    /\ UNCHANGED pending

\* ColorHistory: a click on a swatch of the history
SelectHistory ==
    /\ pending = <<>>
    /\ \E i \in 1..Len(colorHistory) : SetInputColor(colorHistory[i])
    /\ UNCHANGED pending

\* A session on a history that is already long: the page after the mount
\* effect and after `count` colours were typed one after the other
TypedColor(k) == <<"#","A">> \o [j \in 1..5 |-> DigitChars[k]]

RECURSIVE PageAfter(_)
PageAfter(count) ==
    IF count = 0
    THEN [inputColor |-> InitialInput,
          colorData |-> EffectColorData(InitialInput, InitialColorData),
          colorHistory |-> EffectHistory(InitialInput, <<>>)]
    ELSE LET page == PageAfter(count - 1)
         IN  [inputColor |-> TypedColor(count),
              colorData |-> EffectColorData(TypedColor(count), page.colorData),
              colorHistory |-> EffectHistory(TypedColor(count), page.colorHistory)]

\* The events of a session: a text set through setInputColor, or a click on
\* the swatch at one index of the history
TypeEvent(text) == [kind |-> "type", text |-> text, index |-> 0]

ClickEvent(i) == [kind |-> "click", text |-> <<>>, index |-> i]

MaxEvents == 3

TypedCounts == {0, 9, 10}

SessionTexts ==
    { <<"#","B","B","B","B","B","B">>, <<"a","3","3","3","3","3">>,
      <<"#","a","0","0","0","0","0">>, <<"#","f","0","0">>,
      <<"r","e","d">>, <<" ">> }

ClickedIndexes == {1, 2, HistoryLimit}

SessionEvents ==
    {TypeEvent(text) : text \in SessionTexts} \cup {ClickEvent(i) : i \in ClickedIndexes}

Sessions == UNION {[1..n -> SessionEvents] : n \in 1..MaxEvents}

\* The next event is a text: setInputColor(text); the effect runs only when
\* the text differs from inputColor
TypeColor ==
    /\ pending # <<>> /\ Head(pending).kind = "type"
    /\ pending' = Tail(pending)
    /\ IF Head(pending).text # inputColor
       THEN SetInputColor(Head(pending).text)
       ELSE UNCHANGED <<inputColor, colorData, colorHistory, mounted,
                        parse, conv, run, grad, contrast>>

\* The next event is a click on a swatch of the history, when the history
\* has a swatch at that index
ClickHistory ==
    /\ pending # <<>> /\ Head(pending).kind = "click"
    /\ pending' = Tail(pending)
    /\ IF /\ Head(pending).index <= Len(colorHistory)
          /\ colorHistory[Head(pending).index] # inputColor
       THEN SetInputColor(colorHistory[Head(pending).index])
       ELSE UNCHANGED <<inputColor, colorData, colorHistory, mounted,
                        parse, conv, run, grad, contrast>>

\* processColor applied to the drawn text
ParseStep ==
    /\ ~parse.done
    /\ parse' = [parse EXCEPT !.done = TRUE, !.result = processColor(parse.text)]
    /\ UNCHANGED <<pageVars, conv, run, grad, contrast>>

(***************************************************************************)
(* RGB <-> HSL: ColorUtils (standalone-color-analysis.ts), GradientGenerator *)
(* (standalone-gradient-generator.ts) and gradient-utils.ts                *)
(***************************************************************************)
Max3(a, b, c) == IF a >= b /\ a >= c THEN a ELSE IF b >= c THEN b ELSE c

Min3(a, b, c) == IF a <= b /\ a <= c THEN a ELSE IF b <= c THEN b ELSE c

Abs(x) == IF x < 0 THEN -x ELSE x

\* Math.round(n / d) for d > 0: the nearest integer, halves upwards
Round(n, d) == (2 * n + d) \div (2 * d)

\* ColorUtils.rgbToHsl. With the channels r, g, b in 0..255 the source's
\* r/255, g/255, b/255 have max - min = d/255 and max + min = sum/255, so
\*   l = sum/510, s = d/(510 - sum) or d/sum, h = (diff/d + offset)/6.
rgbToHsl(r, g, b) ==
    LET max == Max3(r, g, b)
        min == Min3(r, g, b)
        sum == max + min
        d == max - min
    IN  IF max = min
        THEN [h |-> Round(0, 1), s |-> Round(0, 1), l |-> Round(100 * sum, 510)]
        ELSE LET sDen == IF sum > 255 THEN 510 - sum ELSE sum
                 \* h before "h /= 6", times d
                 hNum == IF max = r THEN (g - b) + (IF g < b THEN 6 * d ELSE 0)
                         ELSE IF max = g THEN (b - r) + 2 * d
                         ELSE (r - g) + 4 * d
             IN  [h |-> Round(360 * hNum, 6 * d),
                  s |-> Round(100 * d, sDen),
                  l |-> Round(100 * sum, 510)]

\* The channels of a "#rrggbb" text: Number.parseInt(hex.slice(1, 3), 16), ...
SliceChannels(hex) ==
    [r |-> ParseHex(SubSeq(hex, 2, 3)), g |-> ParseHex(SubSeq(hex, 4, 5)),
     b |-> ParseHex(SubSeq(hex, 6, 7))]

\* GradientGenerator.hexToHsl: the same computation on the sliced channels
GradientGenerator_hexToHsl(hex) ==
    LET ch == SliceChannels(hex) IN rgbToHsl(ch.r, ch.g, ch.b)

\* gradient-utils hexToHsl: the same computation on the sliced channels
hexToHsl(hex) ==
    LET ch == SliceChannels(hex) IN rgbToHsl(ch.r, ch.g, ch.b)

\* The common body of ColorUtils.hslToRgb and the two hslToHex, for integer
\* h, s, l: the three values (r + m), (g + m), (b + m) as numerators over
\* HslDen. c = cNum/10000, x = c * (60 - |h mod 120 - 60|)/60, m = l/100 - c/2.
\* No branch is taken when h / 360 is not in [0, 1): r = g = b = 0.
HslDen == 600000

HslChannelNums(h, s, l) ==
    LET cNum == (100 - Abs(2 * l - 100)) * s
        c == 60 * cNum
        x == cNum * (60 - Abs((h % 120) - 60))
        m == 6000 * l - 30 * cNum
        rgb1 == IF 0 <= h /\ h < 60 THEN <<c, x, 0>>
                ELSE IF 60 <= h /\ h < 120 THEN <<x, c, 0>>
                ELSE IF 120 <= h /\ h < 180 THEN <<0, c, x>>
                ELSE IF 180 <= h /\ h < 240 THEN <<0, x, c>>
                ELSE IF 240 <= h /\ h < 300 THEN <<x, 0, c>>
                ELSE IF 300 <= h /\ h < 360 THEN <<c, 0, x>>
                ELSE <<0, 0, 0>>
    IN  [r |-> rgb1[1] + m, g |-> rgb1[2] + m, b |-> rgb1[3] + m]

\* ColorUtils.hslToRgb
hslToRgb(h, s, l) ==
    LET n == HslChannelNums(h, s, l)
    IN  [r |-> Round(255 * n.r, HslDen), g |-> Round(255 * n.g, HslDen),
         b |-> Round(255 * n.b, HslDen)]

\* n.toString(16).padStart(2, "0")
HexPair(n) == IF n < 16 THEN <<"0">> \o ToString16(n) ELSE ToString16(n)

\* GradientGenerator.hslToHex
GradientGenerator_hslToHex(h, s, l) ==
    LET n == HslChannelNums(h, s, l)
    IN  ToUpperCase(<<"#">> \o HexPair(Round(255 * n.r, HslDen))
                        \o HexPair(Round(255 * n.g, HslDen))
                        \o HexPair(Round(255 * n.b, HslDen)))

\* gradient-utils hslToHex
hslToHex(h, s, l) ==
    LET n == HslChannelNums(h, s, l)
    IN  ToUpperCase(<<"#">> \o HexPair(Round(255 * n.r, HslDen))
                        \o HexPair(Round(255 * n.g, HslDen))
                        \o HexPair(Round(255 * n.b, HslDen)))

\* ColorUtils.rgbToHex (of three channels): upper-case "#RRGGBB"
ColorUtils_rgbToHex(r, g, b) == ToUpperCase(HexOfChannels(r, g, b))

\* generateMonochromaticPalette: the lightness ladder at the base's hue and
\* saturation
LightnessValues == <<20, 40, 60, 80, 95>>

generateMonochromaticPalette(baseHsl) ==
    [i \in 1..Len(LightnessValues) |->
        LET l == LightnessValues[i]
            rgb == hslToRgb(baseHsl.h, baseHsl.s, l)
        IN  [hex |-> ColorUtils_rgbToHex(rgb.r, rgb.g, rgb.b), rgb |-> rgb,
             hsl |-> [h |-> baseHsl.h, s |-> baseHsl.s, l |-> l]]]

\* a palette colour built from an HSL triple: hslToRgb, then rgbToHex
FromHsl(h, s, l) ==
    LET rgb == hslToRgb(h, s, l)
    IN  [hex |-> ColorUtils_rgbToHex(rgb.r, rgb.g, rgb.b), rgb |-> rgb,
         hsl |-> [h |-> h, s |-> s, l |-> l]]

Max2(a, b) == IF a >= b THEN a ELSE b

Min2(a, b) == IF a <= b THEN a ELSE b

\* generateComplementaryPalette: the base, its complement, three variations
generateComplementaryPalette(baseColor) ==
    LET h == baseColor.hsl.h
        s == baseColor.hsl.s
        l == baseColor.hsl.l
        compH == (h + 180) % 360
    IN  << baseColor,
           FromHsl(compH, s, l),
           FromHsl(h, Max2(s - 20, 0), Min2(l + 20, 100)),
           FromHsl(compH, Max2(s - 20, 0), Min2(l + 20, 100)),
           FromHsl(h, Min2(s + 20, 100), Max2(l - 20, 0)) >>

\* generateAnalogousPalette: the base, hues -30 and +30, a tint and a shade
generateAnalogousPalette(baseColor) ==
    LET h == baseColor.hsl.h
        s == baseColor.hsl.s
        l == baseColor.hsl.l
    IN  << baseColor,
           FromHsl((h - 30 + 360) % 360, s, l),
           FromHsl((h + 30 + 360) % 360, s, l),
           FromHsl(h, s, Min2(l + 30, 100)),
           FromHsl(h, s, Max2(l - 30, 0)) >>

\* generateTriadicPalette: the base, hues +120 and +240
generateTriadicPalette(baseColor) ==
    LET h == baseColor.hsl.h
        s == baseColor.hsl.s
        l == baseColor.hsl.l
    IN  << baseColor, FromHsl((h + 120) % 360, s, l), FromHsl((h + 240) % 360, s, l) >>

\* generateSplitComplementaryPalette: the base, the complement -30 and +30
generateSplitComplementaryPalette(baseColor) ==
    LET h == baseColor.hsl.h
        s == baseColor.hsl.s
        l == baseColor.hsl.l
        complementH == (h + 180) % 360
    IN  << baseColor,
           FromHsl((complementH - 30 + 360) % 360, s, l),
           FromHsl((complementH + 30 + 360) % 360, s, l) >>

NoPalettes ==
    [complementary |-> <<>>, analogous |-> <<>>, triadic |-> <<>>, splitComplementary |-> <<>>]

\* The channel values of the colours drawn as inputs: the ends, the middle
\* and every ChannelStep-th value.
ChannelStep == 64

SampleChannels ==
    {0, 1, 3, 127, 128, 254, 255} \cup {c \in 0..255 : c % ChannelStep = 0}

SampleColors == [r : SampleChannels, g : SampleChannels, b : SampleChannels]

NoHsl == [h |-> -1, s |-> -1, l |-> -1]

NoRgb == [r |-> -1, g |-> -1, b |-> -1]

ConvIdle ==
    conv = [stage |-> "idle", rgb |-> NoRgb, via |-> "", hsl |-> NoHsl,
            out |-> NoRgb, hex |-> NoText, mono |-> <<>>, palettes |-> NoPalettes]

\* ColorUtils.rgbToHsl applied to the drawn colour
RgbToHslStep ==
    /\ conv.stage = "rgb"
    /\ conv' = [conv EXCEPT !.stage = "hsl", !.via = "ColorUtils.rgbToHsl",
                            !.hsl = rgbToHsl(conv.rgb.r, conv.rgb.g, conv.rgb.b)]
    /\ UNCHANGED <<pageVars, parse, run, grad, contrast>>

\* GradientGenerator.hexToHsl applied to the drawn colour's hex text
GeneratorHexToHslStep ==
    /\ conv.stage = "rgb"
    /\ conv' = [conv EXCEPT !.stage = "hsl", !.via = "GradientGenerator.hexToHsl",
                            !.hsl = GradientGenerator_hexToHsl(
                                ColorUtils_rgbToHex(conv.rgb.r, conv.rgb.g, conv.rgb.b))]
    /\ UNCHANGED <<pageVars, parse, run, grad, contrast>>

\* gradient-utils hexToHsl applied to the drawn colour's hex text
HexToHslStep ==
    /\ conv.stage = "rgb"
    /\ conv' = [conv EXCEPT !.stage = "hsl", !.via = "hexToHsl",
                            !.hsl = hexToHsl(
                                ColorUtils_rgbToHex(conv.rgb.r, conv.rgb.g, conv.rgb.b))]
    /\ UNCHANGED <<pageVars, parse, run, grad, contrast>>

\* ColorUtils.hslToRgb and the two hslToHex applied to the HSL triple obtained
HslToRgbStep ==
    /\ conv.stage = "hsl"
    /\ conv' = [conv EXCEPT
                  !.stage = "done",
                  !.out = hslToRgb(conv.hsl.h, conv.hsl.s, conv.hsl.l),
                  !.hex = IF conv.via = "hexToHsl"
                          THEN hslToHex(conv.hsl.h, conv.hsl.s, conv.hsl.l)
                          ELSE GradientGenerator_hslToHex(conv.hsl.h, conv.hsl.s, conv.hsl.l)]
    /\ UNCHANGED <<pageVars, parse, run, grad, contrast>>

\* generateMonochromaticPalette applied to a base colour with that HSL triple
MonochromaticStep ==
    /\ conv.stage = "hsl"
    /\ conv.via = "ColorUtils.rgbToHsl"
    /\ conv' = [conv EXCEPT !.stage = "mono",
                            !.mono = generateMonochromaticPalette(conv.hsl)]
    /\ UNCHANGED <<pageVars, parse, run, grad, contrast>>

\* generateColorPalettes on a dominant colour with the drawn rgb and the HSL
\* triple groupSimilarColors recorded for it: the four hue-rotation palettes
GenerateColorPalettesStep ==
    /\ conv.stage = "hsl"
    /\ conv.via = "ColorUtils.rgbToHsl"
    /\ LET baseColor == [hex |-> ColorUtils_rgbToHex(conv.rgb.r, conv.rgb.g, conv.rgb.b),
                         rgb |-> conv.rgb, hsl |-> conv.hsl]
       IN  conv' = [conv EXCEPT
                      !.stage = "palettes",
                      !.palettes =
                          [complementary |-> generateComplementaryPalette(baseColor),
                           analogous |-> generateAnalogousPalette(baseColor),
                           triadic |-> generateTriadicPalette(baseColor),
                           splitComplementary |->
                               generateSplitComplementaryPalette(baseColor)]]
    /\ UNCHANGED <<pageVars, parse, run, grad, contrast>>

(***************************************************************************)
(* Pixel clustering: ColorAnalysisEngine (standalone-color-analysis.ts)    *)
(* and the older analyzeImage of gradient-utils.ts                         *)
(***************************************************************************)
AlphaCutoff == 128

RECURSIVE SumCounts(_)
SumCounts(seq) == IF seq = <<>> THEN 0 ELSE Head(seq).count + SumCounts(Tail(seq))

\* colorCounts.set(hex, (colorCounts.get(hex) || 0) + 1) on a Map kept as the
\* sequence of its entries in insertion order
MapIncrement(colorCounts, hex) ==
    IF \E i \in 1..Len(colorCounts) : colorCounts[i].hex = hex
    THEN [i \in 1..Len(colorCounts) |->
            IF colorCounts[i].hex = hex
            THEN [colorCounts[i] EXCEPT !.count = @ + 1]
            ELSE colorCounts[i]]
    ELSE Append(colorCounts, [hex |-> hex, count |-> 1])

NoScan == [colorCounts |-> <<>>, totalR |-> 0, totalG |-> 0, totalB |-> 0, validPixels |-> 0]

\* A slip in the cut-off: a pixel with alpha 128 is skipped too.
ScanPixelAbove(acc, px) ==
    IF px.a <= AlphaCutoff THEN acc
    ELSE [colorCounts |-> MapIncrement(acc.colorCounts, ColorUtils_rgbToHex(px.r, px.g, px.b)),
          totalR |-> acc.totalR + px.r,
          totalG |-> acc.totalG + px.g,
          totalB |-> acc.totalB + px.b,
          validPixels |-> acc.validPixels + 1]

\* One iteration of the pixel loop: a pixel with alpha < 128 is skipped.
ScanPixel(acc, px) ==
    IF px.a < AlphaCutoff THEN acc
    ELSE [colorCounts |-> MapIncrement(acc.colorCounts, ColorUtils_rgbToHex(px.r, px.g, px.b)),
          totalR |-> acc.totalR + px.r,
          totalG |-> acc.totalG + px.g,
          totalB |-> acc.totalB + px.b,
          validPixels |-> acc.validPixels + 1]

\* The pixel loop, in buffer order
RECURSIVE ScanPixels(_, _)
ScanPixels(acc, pixels) ==
    IF pixels = <<>> THEN acc
    ELSE ScanPixels(ScanPixel(acc, Head(pixels)), Tail(pixels))

\* colorDistance(c1, c2) < threshold, for an integer threshold >= 0:
\* sqrt(dr^2 + dg^2 + db^2) < threshold
DistanceSquared(c1, c2) ==
    (c1.r - c2.r) * (c1.r - c2.r) + (c1.g - c2.g) * (c1.g - c2.g)
        + (c1.b - c2.b) * (c1.b - c2.b)

\* A slip in the comparison: a colour exactly at the threshold is merged.
DistanceWithin(c1, c2, threshold) == DistanceSquared(c1, c2) <= threshold * threshold

DistanceBelow(c1, c2, threshold) == DistanceSquared(c1, c2) < threshold * threshold

\* The index of the first group within the threshold of the colour, or 0
FirstGroupWithin(groups, rgb, threshold) ==
    IF \E i \in 1..Len(groups) : DistanceBelow(rgb, groups[i].rgb, threshold)
    THEN CHOOSE i \in 1..Len(groups) :
            /\ DistanceBelow(rgb, groups[i].rgb, threshold)
            /\ \A j \in 1..(i - 1) : ~DistanceBelow(rgb, groups[j].rgb, threshold)
    ELSE 0

\* A slip in the merge: the absorbed colour's count is not added to the group.
RECURSIVE GroupLoopDropsCount(_, _, _)
GroupLoopDropsCount(groups, colorArray, threshold) ==
    IF colorArray = <<>> THEN groups
    ELSE LET color == Head(colorArray)
             k == FirstGroupWithin(groups, color.rgb, threshold)
         IN  IF k # 0
             THEN GroupLoopDropsCount(groups, Tail(colorArray), threshold)
             ELSE GroupLoopDropsCount(Append(groups, color), Tail(colorArray), threshold)

\* A slip in the merge: the comparison is inverted, distance >= threshold.
RECURSIVE GroupLoopInverted(_, _, _)
GroupLoopInverted(groups, colorArray, threshold) ==
    IF colorArray = <<>> THEN groups
    ELSE LET color == Head(colorArray)
             far == {i \in 1..Len(groups) : ~DistanceBelow(color.rgb, groups[i].rgb, threshold)}
         IN  IF far # {}
             THEN GroupLoopInverted(
                    [groups EXCEPT ![CHOOSE i \in far : \A j \in far : i <= j].count
                                        = @ + color.count],
                    Tail(colorArray), threshold)
             ELSE GroupLoopInverted(Append(groups, color), Tail(colorArray), threshold)

\* The loop of groupSimilarColors over the colour array, in insertion order
RECURSIVE GroupLoop(_, _, _)
GroupLoop(groups, colorArray, threshold) ==
    IF colorArray = <<>> THEN groups
    ELSE LET color == Head(colorArray)
             k == FirstGroupWithin(groups, color.rgb, threshold)
         IN  IF k # 0
             THEN GroupLoop([groups EXCEPT ![k].count = @ + color.count],
                            Tail(colorArray), threshold)
             ELSE GroupLoop(Append(groups, color), Tail(colorArray), threshold)

\* ColorUtils.hexToRgb: the channels of a hex text (the pattern of hexToRgb)
ColorUtils_hexToRgb(hex) ==
    LET d == AfterHash(hex)
    IN  [r |-> ParseHex(SubSeq(d, 1, 2)), g |-> ParseHex(SubSeq(d, 3, 4)),
         b |-> ParseHex(SubSeq(d, 5, 6))]

ZeroPercent == <<0, 1>>

\* the colour array ColorAnalysisEngine.groupSimilarColors builds of the Map
EngineColorArray(colors) ==
    [i \in 1..Len(colors) |->
        LET rgb == ColorUtils_hexToRgb(colors[i].hex)
        IN  [hex |-> colors[i].hex, rgb |-> rgb, hsl |-> rgbToHsl(rgb.r, rgb.g, rgb.b),
             count |-> colors[i].count, percentage |-> ZeroPercent]]

\* ColorAnalysisEngine.groupSimilarColors
ColorAnalysisEngine_groupSimilarColors(colors, threshold) ==
    GroupLoop(<<>>, EngineColorArray(colors), threshold)

\* gradient-utils groupSimilarColors
groupSimilarColors(colors, threshold) ==
    GroupLoop(<<>>,
              [i \in 1..Len(colors) |->
                  [hex |-> colors[i].hex, rgb |-> SliceChannels(colors[i].hex),
                   count |-> colors[i].count, percentage |-> ZeroPercent]],
              threshold)

\* color.percentage = (color.count / validPixels) * 100, kept as the fraction
\* <<numerator, denominator>>
WithPercentages(groups, validPixels) ==
    [i \in 1..Len(groups) |->
        [groups[i] EXCEPT !.percentage = <<groups[i].count * 100, validPixels>>]]

\* A slip in the sort: the clusters are left in insertion order.
SortByCountUnsorted(sorted, rest) == sorted \o rest

\* Array.prototype.sort((a, b) => b.count - a.count): stable, count descending
RECURSIVE SortByCount(_, _)
SortByCount(sorted, rest) ==
    IF rest = <<>> THEN sorted
    ELSE LET x == Head(rest)
             k == Cardinality({i \in 1..Len(sorted) : sorted[i].count >= x.count})
         IN  SortByCount(SubSeq(sorted, 1, k) \o <<x>> \o SubSeq(sorted, k + 1, Len(sorted)),
                         Tail(rest))

\* Array.prototype.slice(0, n)
Slice(seq, n) == SubSeq(seq, 1, IF Len(seq) < n THEN Len(seq) ELSE n)

\* Math.round(total / validPixels) per channel; 0 / 0 is NaN
NaN == "NaN"

\* A slip in the average: the division is guarded (validPixels || 1), so a run
\* without a valid pixel reports black.
AverageColorGuarded(totalR, totalG, totalB, validPixels) ==
    LET n == IF validPixels = 0 THEN 1 ELSE validPixels
        avgR == Round(totalR, n)
        avgG == Round(totalG, n)
        avgB == Round(totalB, n)
    IN  [hex |-> ColorUtils_rgbToHex(avgR, avgG, avgB),
         rgb |-> [r |-> avgR, g |-> avgG, b |-> avgB]]

\* The average colour. Without a valid pixel each channel is NaN; rgbToHex
\* then computes (1 << 24) + (NaN << 16) + (NaN << 8) + NaN, which is NaN,
\* whose toString(16).slice(1).toUpperCase() is "AN".
AverageColor(totalR, totalG, totalB, validPixels) ==
    IF validPixels = 0
    THEN [hex |-> <<"#", "A", "N">>, rgb |-> [r |-> NaN, g |-> NaN, b |-> NaN]]
    ELSE LET avgR == Round(totalR, validPixels)
             avgG == Round(totalG, validPixels)
             avgB == Round(totalB, validPixels)
         IN  [hex |-> ColorUtils_rgbToHex(avgR, avgG, avgB),
              rgb |-> [r |-> avgR, g |-> avgG, b |-> avgB]]

\* avgHsl = ColorUtils.rgbToHsl(avgR, avgG, avgB). On NaN channels max and min
\* are NaN, max !== min holds, s and l are NaN, no case of the switch matches
\* and h stays 0.
AverageHsl(avg, validPixels) ==
    IF validPixels = 0
    THEN [h |-> 0, s |-> NaN, l |-> NaN]
    ELSE rgbToHsl(avg.rgb.r, avg.rgb.g, avg.rgb.b)

\* ColorUtils.getColorName answers "Unknown" when hexToRgb rejects the hex;
\* otherwise the name of the closest entry of its table (not modelled: "Named")
getColorName(hex) == IF HexPairsMatch(hex) THEN "Named" ELSE "Unknown"

\* .filter((color) => color.percentage >= minPercentage), with minPercentage
\* given in tenths of a percent
AtLeastMinPercentage(groups, minTenths) ==
    SelectSeq(groups, LAMBDA c : c.percentage[1] * 10 >= minTenths * c.percentage[2])

\* createBalancedPalette of gradient-utils
MinDistance == 50

MaxPaletteSize == 8

\* A slip in the palette: the similarity test is dropped.
RECURSIVE createBalancedPaletteLoopAll(_, _)
createBalancedPaletteLoopAll(palette, colors) ==
    IF colors = <<>> \/ Len(palette) >= MaxPaletteSize THEN palette
    ELSE createBalancedPaletteLoopAll(Append(palette, Head(colors)), Tail(colors))

RECURSIVE createBalancedPaletteLoop(_, _)
createBalancedPaletteLoop(palette, colors) ==
    IF colors = <<>> \/ Len(palette) >= MaxPaletteSize THEN palette
    ELSE LET color == Head(colors)
             isTooSimilar == \E i \in 1..Len(palette) :
                                DistanceBelow(color.rgb, palette[i].rgb, MinDistance)
         IN  createBalancedPaletteLoop(IF isTooSimilar THEN palette ELSE Append(palette, color),
                                       Tail(colors))

createBalancedPalette(colors) == createBalancedPaletteLoop(<<>>, colors)

LegacyThreshold == 25

LegacyMaxColors == 10

\* Bounds and inputs of the analysis runs
MaxPixels == 4

PixelColors ==
    { [r |-> 0, g |-> 9, b |-> 0], [r |-> 10, g |-> 9, b |-> 0],
      [r |-> 14, g |-> 17, b |-> 0], [r |-> 14, g |-> 1, b |-> 0] }

\* every colour opaque, and one pixel on each side of the alpha cut-off
Pixels ==
    {[r |-> c.r, g |-> c.g, b |-> c.b, a |-> 255] : c \in PixelColors}
        \cup {[r |-> 255, g |-> 0, b |-> 0, a |-> 128], [r |-> 0, g |-> 9, b |-> 0, a |-> 127]}

\* Eleven colours at least 25 apart from each other, so that analyzeImage of
\* gradient-utils forms more than ten clusters: the corners of the RGB cube,
\* mid grey, a colour exactly 50 from black and a colour 40 from white.
LongColors ==
    << [r |-> 0, g |-> 0, b |-> 0], [r |-> 255, g |-> 0, b |-> 0],
       [r |-> 0, g |-> 255, b |-> 0], [r |-> 30, g |-> 40, b |-> 0],
       [r |-> 0, g |-> 0, b |-> 255], [r |-> 255, g |-> 255, b |-> 0],
       [r |-> 255, g |-> 0, b |-> 255], [r |-> 255, g |-> 255, b |-> 215],
       [r |-> 0, g |-> 255, b |-> 255], [r |-> 128, g |-> 128, b |-> 128],
       [r |-> 255, g |-> 255, b |-> 255] >>

Opaque(c) == [r |-> c.r, g |-> c.g, b |-> c.b, a |-> 255]

Rotate(seq, k) == [i \in 1..Len(seq) |-> seq[((i + k - 1) % Len(seq)) + 1]]

LongShifts == {0, 3, 7}

\* rotations of the eleven colours, followed by two more pixels of them
LongBuffers ==
    { [i \in 1..Len(LongColors) |-> Opaque(Rotate(LongColors, k)[i])]
          \o <<Opaque(LongColors[x]), Opaque(LongColors[y])>> :
        k \in LongShifts, x \in 1..Len(LongColors), y \in 1..Len(LongColors) }

PixelBuffers == UNION {[1..n -> Pixels] : n \in 0..MaxPixels} \cup LongBuffers

\* the options of ColorAnalysisEngine.analyzeImage; minPercentage in tenths
AnalysisOptions ==
    { [maxColors |-> 3, minPercentage |-> 10, groupingThreshold |-> 10],
      [maxColors |-> 3, minPercentage |-> 10, groupingThreshold |-> 15],
      [maxColors |-> 10, minPercentage |-> 400, groupingThreshold |-> 25] }

NoAverage == [hex |-> NoText, rgb |-> [r |-> NaN, g |-> NaN, b |-> NaN]]

NoAverageHsl == [h |-> NaN, s |-> NaN, l |-> NaN]

RunIdle ==
    run = [stage |-> "idle", engine |-> "", pixels |-> <<>>,
           options |-> [maxColors |-> 10, minPercentage |-> 10, groupingThreshold |-> 25],
           colorCounts |-> <<>>, validPixels |-> 0, groupedColors |-> <<>>,
           totals |-> [r |-> 0, g |-> 0, b |-> 0], dominantColors |-> <<>>,
                 averageColor |-> NoAverage,
           averageHsl |-> NoAverageHsl, averageName |-> "", palette |-> <<>>]

\* ColorAnalysisEngine.analyzeImage: img.onload, from getImageData to resolve
AnalyzeImage ==
    /\ run.stage = "loaded"
    /\ LET scan == ScanPixels(NoScan, run.pixels)
           groupedColors ==
               WithPercentages(
                   ColorAnalysisEngine_groupSimilarColors(scan.colorCounts,
                                                          run.options.groupingThreshold),
                   scan.validPixels)
           filteredColors ==
               Slice(SortByCount(<<>>, AtLeastMinPercentage(groupedColors,
                                                            run.options.minPercentage)),
                     run.options.maxColors)
           averageColor == AverageColor(scan.totalR, scan.totalG, scan.totalB,
                                        scan.validPixels)
       IN  run' = [run EXCEPT
                     !.stage = "done",
                     !.engine = "ColorAnalysisEngine.analyzeImage",
                     !.colorCounts = scan.colorCounts,
                     !.validPixels = scan.validPixels,
                     !.totals = [r |-> scan.totalR, g |-> scan.totalG, b |-> scan.totalB],
                     !.groupedColors = groupedColors,
                     !.dominantColors = filteredColors,
                     !.averageColor = averageColor,
                     !.averageHsl = AverageHsl(averageColor, scan.validPixels),
                     !.averageName = getColorName(averageColor.hex)]
    /\ UNCHANGED <<pageVars, parse, conv, grad, contrast>>

\* analyzeImage of gradient-utils: img.onload, from getImageData to resolve
LegacyAnalyzeImage ==
    /\ run.stage = "loaded"
    /\ LET scan == ScanPixels(NoScan, run.pixels)
           validPixels == SumCounts(scan.colorCounts)
           groupedColors ==
               SortByCount(<<>>,
                   WithPercentages(groupSimilarColors(scan.colorCounts, LegacyThreshold),
                                   validPixels))
       IN  run' = [run EXCEPT
                     !.stage = "done",
                     !.engine = "analyzeImage",
                     !.colorCounts = scan.colorCounts,
                     !.validPixels = validPixels,
                     !.totals = [r |-> scan.totalR, g |-> scan.totalG, b |-> scan.totalB],
                     !.groupedColors = groupedColors,
                     !.dominantColors = Slice(groupedColors, LegacyMaxColors),
                     !.averageColor = AverageColor(scan.totalR, scan.totalG, scan.totalB,
                                                   validPixels),
                     !.palette = createBalancedPalette(groupedColors)]
    /\ UNCHANGED <<pageVars, parse, conv, grad, contrast>>

(***************************************************************************)
(* Gradients: GradientGenerator (standalone-gradient-generator.ts) and     *)
(* generateGradients of gradient-utils.ts                                  *)
(***************************************************************************)
\* hslToHex(hn / q, sn / q, ln / q) of either module, for the fractional
\* triples interpolation hands to it. Over the denominator 600000 * q^3:
\*   c = (1 - |2l - 1|) * s,  x = c * (1 - |(6h mod 2) - 1|),  m = l - c / 2
HslChannelNumsOver(hn, sn, ln, q) ==
    LET cNum == (100 * q - Abs(2 * ln - 100 * q)) * sn
        c == 60 * q * cNum
        x == cNum * (60 * q - Abs((hn % (120 * q)) - 60 * q))
        m == 6000 * q * q * ln - 30 * q * cNum
        rgb1 == IF 0 <= hn /\ hn < 60 * q THEN <<c, x, 0>>
                ELSE IF 60 * q <= hn /\ hn < 120 * q THEN <<x, c, 0>>
                ELSE IF 120 * q <= hn /\ hn < 180 * q THEN <<0, c, x>>
                ELSE IF 180 * q <= hn /\ hn < 240 * q THEN <<0, x, c>>
                ELSE IF 240 * q <= hn /\ hn < 300 * q THEN <<x, 0, c>>
                ELSE IF 300 * q <= hn /\ hn < 360 * q THEN <<c, 0, x>>
                ELSE <<0, 0, 0>>
    IN  [r |-> rgb1[1] + m, g |-> rgb1[2] + m, b |-> rgb1[3] + m]

\* "#" and the three channels Math.round((r + m) * 255) as two hex digits,
\* upper-cased; Round(255 * n, 600000 * q^3) is computed as Round(17 * n, d)
\* with d = 40000 * q^3
HexOfChannelNums(n, d) ==
    ToUpperCase(<<"#">> \o HexPair(Round(17 * n.r, d)) \o HexPair(Round(17 * n.g, d))
                    \o HexPair(Round(17 * n.b, d)))

hslToHexOver(hn, sn, ln, q) ==
    HexOfChannelNums(HslChannelNumsOver(hn, sn, ln, q), 40000 * q * q * q)

\* [...colors].sort((a, b) => key(a) - key(b)) on [key, value] pairs: stable,
\* key ascending
RECURSIVE SortAscending(_, _)
SortAscending(sorted, rest) ==
    IF rest = <<>> THEN sorted
    ELSE LET x == Head(rest)
             k == Cardinality({i \in 1..Len(sorted) : sorted[i].key <= x.key})
         IN  SortAscending(SubSeq(sorted, 1, k) \o <<x>> \o SubSeq(sorted, k + 1, Len(sorted)),
                           Tail(rest))

\* sortColorsByHue and sortColorsByLightness, of both modules
sortColorsByHue(colors) ==
    LET keyed == [i \in 1..Len(colors) |->
                    [key |-> GradientGenerator_hexToHsl(colors[i]).h, value |-> colors[i]]]
        sorted == SortAscending(<<>>, keyed)
    IN  [i \in 1..Len(colors) |-> sorted[i].value]

sortColorsByLightness(colors) ==
    LET keyed == [i \in 1..Len(colors) |->
                    [key |-> GradientGenerator_hexToHsl(colors[i]).l, value |-> colors[i]]]
        sorted == SortAscending(<<>>, keyed)
    IN  [i \in 1..Len(colors) |-> sorted[i].value]

\* The % of the source: the remainder takes the sign of the dividend
Remainder(a, b) == IF a >= 0 THEN a % b ELSE 0 - ((0 - a) % b)

HueDifferenceDirect(h1, h2) == h2 - h1

\* The hue difference of one interpolation: h2 - h1, moved by a full turn
\* when its magnitude exceeds 180
HueDifference(h1, h2) ==
    LET diff == h2 - h1
    IN  IF Abs(diff) > 180 THEN (IF diff > 0 THEN diff - 360 ELSE diff + 360)
        ELSE diff

\* One interpolated colour at ratio i / q between two HSL triples: the hue
\* along the shorter arc, (h1 + hDiff * ratio + 360) % 360
InterpolatedHsl(hsl1, hsl2, i, q) ==
    LET hDiff == HueDifference(hsl1.h, hsl2.h)
    IN  [h |-> Remainder(q * hsl1.h + hDiff * i + 360 * q, 360 * q),
         s |-> q * hsl1.s + (hsl2.s - hsl1.s) * i,
         l |-> q * hsl1.l + (hsl2.l - hsl1.l) * i]

HexOfHslOver(t, q) == hslToHexOver(t.h, t.s, t.l, q)

InterpolateHsl(hsl1, hsl2, steps) ==
    [k \in 1..steps |-> HexOfHslOver(InterpolatedHsl(hsl1, hsl2, k - 1, steps - 1), steps - 1)]

\* GradientGenerator.interpolateColors
interpolateColors(color1, color2, steps) ==
    InterpolateHsl(GradientGenerator_hexToHsl(color1), GradientGenerator_hexToHsl(color2),
                   steps)

\* createSmoothGradient of gradient-utils: steps colours for each adjacent
\* pair of the hue-sorted colours
RECURSIVE SmoothPairs(_, _)
SmoothPairs(sortedColors, steps) ==
    IF Len(sortedColors) < 2 THEN <<>>
    ELSE interpolateColors(sortedColors[1], sortedColors[2], steps)
            \o SmoothPairs(Tail(sortedColors), steps)

createSmoothGradient(colors, steps) ==
    IF Len(colors) < 2 THEN colors ELSE SmoothPairs(sortColorsByHue(colors), steps)

\* A stop position is kept as the fraction <<numerator, denominator>> of the
\* source's division; a direction as the sequence of its words; a css or
\* preview text as its function name, its direction words and its items.
Percent(index, last) == <<100 * index, last>>

EvenStops(colors) ==
    [i \in 1..Len(colors) |-> [color |-> colors[i], position |-> Percent(i - 1, Len(colors) - 1)]]

\* fn(direction, stops.map((stop) => `${stop.color} ${stop.position}unit`).join(", "))
CssOf(fn, direction, stops, unit) ==
    [fn |-> fn, direction |-> direction,
     items |-> [i \in 1..Len(stops) |->
                  [color |-> stops[i].color, position |-> stops[i].position, unit |-> unit]]]

\* fn(direction, colors.join(", "))
PreviewOf(fn, direction, colors) == [fn |-> fn, direction |-> direction, colors |-> colors]

StopColors(stops) == [i \in 1..Len(stops) |-> stops[i].color]

\* GradientGenerator.DIRECTIONS and GRADIENT_DIRECTIONS: the values, in order
DIRECTIONS ==
    << <<"to", "bottom">>, <<"to", "right">>, <<"to", "bottom", "right">>,
       <<"to", "bottom", "left">>, <<"to", "top", "right">>, <<"to", "top", "left">>,
       <<"to", "top">>, <<"to", "left">> >>

\* A gradient of the standalone generator
GradientOf(id, type, fn, direction, stops, unit, previewColors, tags) ==
    [id |-> id, type |-> type, direction |-> direction, stops |-> stops,
     css |-> CssOf(fn, direction, stops, unit),
     preview |-> PreviewOf(fn, direction, previewColors), tags |-> tags]

\* A linear gradient of evenly spaced stops over the colours given
EvenLinear(id, direction, colors, tags) ==
    GradientOf(id, "linear", "linear-gradient", direction, EvenStops(colors), "%", colors, tags)

\* A slip in the basic gradients: the gradient of all the colours is pushed
\* from two colours on.
generateBasicGradientsFromTwo(colors) ==
    [i \in 1..(Len(colors) - 1) |->
        GradientOf(<<"basic", "-">> \o DecText(i - 1), "linear", "linear-gradient",
                   <<"to", "right">>,
                   << [color |-> colors[i], position |-> <<0, 1>>],
                      [color |-> colors[i + 1], position |-> <<100, 1>>] >>,
                   "%", <<colors[i], colors[i + 1]>>, <<"basic", "two-color">>)]
    \o (IF Len(colors) >= 2
        THEN <<EvenLinear(<<"multi-color">>, <<"to", "right">>, colors,
                          <<"multi-color", "spectrum">>)>>
        ELSE <<>>)

\* generateBasicGradients: one gradient per adjacent pair, and the gradient
\* of all the colours when there are at least three
generateBasicGradients(colors) ==
    [i \in 1..(Len(colors) - 1) |->
        GradientOf(<<"basic", "-">> \o DecText(i - 1), "linear", "linear-gradient",
                   <<"to", "right">>,
                   << [color |-> colors[i], position |-> <<0, 1>>],
                      [color |-> colors[i + 1], position |-> <<100, 1>>] >>,
                   "%", <<colors[i], colors[i + 1]>>, <<"basic", "two-color">>)]
    \o (IF Len(colors) >= 3
        THEN <<EvenLinear(<<"multi-color">>, <<"to", "right">>, colors,
                          <<"multi-color", "spectrum">>)>>
        ELSE <<>>)

\* generateSortedGradients: the colours by hue, and by lightness
generateSortedGradients(colors) ==
    << EvenLinear(<<"hue-sorted">>, <<"45deg">>, sortColorsByHue(colors),
                  <<"rainbow", "hue-sorted", "natural">>),
       EvenLinear(<<"lightness-sorted">>, <<"to", "bottom">>, sortColorsByLightness(colors),
                  <<"lightness", "sorted", "depth">>) >>

\* generateInterpolatedGradients: five colours from the first to the last
generateInterpolatedGradients(colors) ==
    IF Len(colors) >= 2
    THEN <<EvenLinear(<<"smooth-interpolated">>, <<"135deg">>,
                      interpolateColors(colors[1], colors[Len(colors)], 5),
                      <<"smooth", "interpolated", "transition">>)>>
    ELSE <<>>

\* the stops of the first three colours: index / (Math.min(length, 3) - 1) * 100
CenterStops(first, length) ==
    [i \in 1..Len(first) |->
        [color |-> first[i], position |-> Percent(i - 1, Min2(length, 3) - 1)]]

RadialPair(centerStops, first) ==
    << GradientOf(<<"radial-center">>, "radial", "radial-gradient",
                  <<"circle", "at", "center">>, centerStops, "%", first,
                  <<"radial", "center", "circular">>),
       GradientOf(<<"radial-corner">>, "radial", "radial-gradient",
                  <<"circle", "at", "top", "left">>, centerStops, "%", first,
                  <<"radial", "corner", "dramatic">>) >>

\* generateRadialGradients: the first three colours, from the centre and
\* from the corner
generateRadialGradients(colors) ==
    RadialPair(CenterStops(Slice(colors, 3), Len(colors)), Slice(colors, 3))

\* index / colors.length * 360
ConicStops(colors) ==
    [i \in 1..Len(colors) |->
        [color |-> colors[i], position |-> <<360 * (i - 1), Len(colors)>>]]

\* generateConicGradients: the colour wheel, from three colours on
generateConicGradients(colors) ==
    IF Len(colors) >= 3
    THEN <<GradientOf(<<"conic-wheel">>, "conic", "conic-gradient",
                      <<"from", "0deg", "at", "center">>, ConicStops(colors), "deg", colors,
                      <<"conic", "wheel", "circular">>)>>
    ELSE <<>>

\* `${stop.color}${Math.round(stop.opacity * 255).toString(16).padStart(2, "0")}`
WithAlpha(color, opacity) == color \o HexPair(Round(255 * opacity[1], opacity[2]))

\* A slip in the stripes: each colour's end is pushed before its start.
StripeStopsSwapped(colors) ==
    [k \in 1..(2 * Len(colors)) |->
        [color |-> colors[((k - 1) \div 2) + 1],
         position |-> <<100 * (((k - 1) \div 2) + (k % 2)), Len(colors)>>]]

\* start = index / length * 100 and end = (index + 1) / length * 100 per colour
StripeStops(colors) ==
    [k \in 1..(2 * Len(colors)) |->
        [color |-> colors[((k - 1) \div 2) + 1],
         position |-> <<100 * (k \div 2), Len(colors)>>]]

\* index * 25 at opacity 1 and index * 25 + 12.5 at opacity 0.5 per colour
FadeStops(colors) ==
    [k \in 1..(2 * Len(colors)) |->
        IF k % 2 = 1
        THEN [color |-> colors[((k - 1) \div 2) + 1],
              position |-> <<25 * ((k - 1) \div 2), 1>>, opacity |-> <<1, 1>>]
        ELSE [color |-> colors[((k - 1) \div 2) + 1],
              position |-> <<50 * ((k - 1) \div 2) + 25, 2>>, opacity |-> <<1, 2>>]]

FadeOf(fadeStops, colors) ==
    [id |-> <<"fade-pattern">>, type |-> "linear", direction |-> <<"to", "bottom">>,
     stops |-> fadeStops,
     css |-> [fn |-> "linear-gradient", direction |-> <<"to", "bottom">>,
              items |-> [k \in 1..Len(fadeStops) |->
                           [color |-> WithAlpha(fadeStops[k].color, fadeStops[k].opacity),
                            position |-> fadeStops[k].position, unit |-> "%"]]],
     preview |-> PreviewOf("linear-gradient", <<"to", "bottom">>, colors),
     tags |-> <<"fade", "opacity", "pattern">>]

\* generateAdvancedPatterns: hard-edged stripes and the fade pattern
generateAdvancedPatterns(colors) ==
    IF Len(colors) >= 2
    THEN << GradientOf(<<"striped">>, "linear", "linear-gradient", <<"to", "right">>,
                       StripeStops(colors), "%", colors,
                       <<"stripes", "hard-edge", "pattern">>),
            FadeOf(FadeStops(colors), colors) >>
    ELSE <<>>

\* css.replace(/to \w+( \w+)?/, direction.value) on the words of a css text.
\* The first "to" followed by a word can only lie in the direction: the
\* function name, the hex colours and the positions hold no "to ". The match
\* takes one more word when one follows.
ReplaceFirstTo(words, value) ==
    LET hits == {i \in 1..(Len(words) - 1) : words[i] = "to"}
    IN  IF hits = {} THEN words
        ELSE LET i == CHOOSE h \in hits : \A j \in hits : h <= j
                 last == IF i + 2 <= Len(words) THEN i + 2 ELSE i + 1
             IN  SubSeq(words, 1, i - 1) \o value \o SubSeq(words, last + 1, Len(words))

\* direction.value.replace(/\s+/g, "-")
RECURSIVE JoinDash(_)
JoinDash(words) ==
    IF Len(words) <= 1 THEN words ELSE <<Head(words), "-">> \o JoinDash(Tail(words))

\* one variation: the gradient spread, with id, direction, css and tags replaced
VariationIn(gradient, direction) ==
    [gradient EXCEPT
        !.id = gradient.id \o <<"-">> \o JoinDash(direction),
        !.direction = direction,
        !.css = [fn |-> gradient.css.fn,
                 direction |-> ReplaceFirstTo(gradient.css.direction, direction),
                 items |-> gradient.css.items],
        !.tags = Append(gradient.tags, "variation")]

VariationsAlong(gradient, differ) ==
    [k \in 1..Len(differ) |-> VariationIn(gradient, differ[k])]

\* the variations generateVariations pushes for one gradient
VariationsOf(gradient) ==
    IF gradient.type = "linear"
    THEN VariationsAlong(gradient,
                         SelectSeq(Slice(DIRECTIONS, 3), LAMBDA d : d # gradient.direction))
    ELSE <<>>

RECURSIVE AllVariations(_)
AllVariations(baseGradients) ==
    IF baseGradients = <<>> THEN <<>>
    ELSE VariationsOf(Head(baseGradients)) \o AllVariations(Tail(baseGradients))

MaxVariations == 10

\* GradientGenerator.generateVariations
generateVariations(baseGradients) == Slice(AllVariations(baseGradients), MaxVariations)

VariedGradients == 5

TooFewColors == "At least 2 colors are required to generate gradients"

\* A slip in the order: the sorted gradients are pushed before the basic ones.
GeneratedSortedFirst(colors) ==
    generateSortedGradients(colors) \o generateBasicGradients(colors)
        \o generateInterpolatedGradients(colors)
        \o generateRadialGradients(colors) \o generateConicGradients(colors)
        \o generateAdvancedPatterns(colors)

\* the gradients pushed before the variations
Generated(colors) ==
    generateBasicGradients(colors) \o generateSortedGradients(colors)
        \o generateInterpolatedGradients(colors)
        \o generateRadialGradients(colors) \o generateConicGradients(colors)
        \o generateAdvancedPatterns(colors)

WithVariations(generated, includeVariations) ==
    IF includeVariations
    THEN generated \o generateVariations(Slice(generated, VariedGradients))
    ELSE generated

CollectionOf(finalGradients, colors) ==
    [threw |-> FALSE, message |-> "", gradients |-> finalGradients,
     metadata |-> [colorCount |-> Len(colors), gradientCount |-> Len(finalGradients)]]

\* A slip in the collection: too few colours give an empty collection.
generateGradientCollectionLenient(colors, options) ==
    IF Len(colors) < 2
    THEN CollectionOf(<<>>, colors)
    ELSE CollectionOf(Slice(WithVariations(Generated(colors), options.includeVariations),
                            options.maxGradients),
                      colors)

\* GradientGenerator.generateGradientCollection: throws below two colours
generateGradientCollection(colors, options) ==
    IF Len(colors) < 2
    THEN [threw |-> TRUE, message |-> TooFewColors, gradients |-> <<>>,
          metadata |-> [colorCount |-> 0, gradientCount |-> 0]]
    ELSE CollectionOf(Slice(WithVariations(Generated(colors), options.includeVariations),
                            options.maxGradients),
                      colors)

\* The six gradients of generateGradients (gradient-utils), over the hex
\* texts of the extracted colours; an empty list below two colours
generateGradients(colors) ==
    IF Len(colors) < 2 THEN <<>>
    ELSE LET dominantStops == EvenStops(Slice(colors, 3))
             hueStops == EvenStops(sortColorsByHue(Slice(colors, 5)))
             lightnessStops == EvenStops(sortColorsByLightness(Slice(colors, 4)))
             smoothStops == EvenStops(createSmoothGradient(Slice(colors, 3), 4))
             radialStops == EvenStops(Slice(colors, 3))
             conicColors == sortColorsByHue(Slice(colors, 4))
             conicStops == [i \in 1..Len(conicColors) |->
                              [color |-> conicColors[i],
                               position |-> <<360 * (i - 1), Len(conicColors)>>]]
             linear(id, direction, stops) ==
                 [id |-> id, type |-> "linear", direction |-> direction, stops |-> stops,
                  css |-> CssOf("linear-gradient", direction, stops, "%"),
                  preview |-> PreviewOf("linear-gradient", direction, StopColors(stops))]
         IN  << linear(<<"dominant">>, <<"to", "right">>, dominantStops),
                linear(<<"hue">>, <<"45deg">>, hueStops),
                linear(<<"lightness">>, <<"to", "bottom">>, lightnessStops),
                linear(<<"smooth">>, <<"135deg">>, smoothStops),
                [id |-> <<"radial">>, type |-> "radial",
                 direction |-> <<"circle", "at", "center">>, stops |-> radialStops,
                 css |-> CssOf("radial-gradient", <<"circle", "at", "center">>,
                               radialStops, "%"),
                 preview |-> PreviewOf("radial-gradient", <<"circle", "at", "center">>,
                                       StopColors(radialStops))],
                [id |-> <<"conic">>, type |-> "conic",
                 direction |-> <<"from", "0deg", "at", "center">>, stops |-> conicStops,
                 css |-> CssOf("conic-gradient", <<"from", "0deg", "at", "center">>,
                               conicStops, "deg"),
                 preview |-> PreviewOf("conic-gradient", <<"from", "0deg", "at", "center">>,
                                       StopColors(conicStops))] >>

\* updateGradientDirection of the gradient panel: the gradient it selects
updateGradientDirection(gradient, newDirection) ==
    [gradient EXCEPT
        !.direction = newDirection,
        !.css = CssOf("linear-gradient", newDirection, gradient.stops, "%"),
        !.preview = PreviewOf("linear-gradient", newDirection, StopColors(gradient.stops))]

ShownVariations == 3

\* generateGradientVariations of gradient-utils
generateGradientVariations(gradient) ==
    IF gradient.type = "linear"
    THEN LET differ == SelectSeq(DIRECTIONS, LAMBDA d : d # gradient.direction)
         IN  Slice([k \in 1..Len(differ) |->
                       [updateGradientDirection(gradient, differ[k]) EXCEPT
                           !.id = gradient.id \o <<"-">> \o JoinDash(differ[k])]],
                   ShownVariations)
    ELSE <<>>

\* The colours gradients are generated from: windows of a ring of ten
\* colours, the default three of the standalone generator first
GradientColors ==
    << <<"#", "3", "B", "8", "2", "F", "6">>, <<"#", "8", "B", "5", "C", "F", "6">>,
       <<"#", "E", "C", "4", "8", "9", "9">>, <<"#", "F", "F", "0", "0", "0", "0">>,
       <<"#", "0", "0", "0", "0", "0", "0">>, <<"#", "F", "A", "C", "C", "1", "5">>,
       <<"#", "F", "F", "0", "0", "0", "1">>, <<"#", "F", "F", "F", "F", "F", "F">>,
       <<"#", "0", "0", "F", "F", "0", "0">>, <<"#", "1", "0", "B", "9", "8", "1">> >>

MaxColors == 10

GradientShifts == {0, 3, 7}

ColorLists ==
    { [i \in 1..n |-> GradientColors[((i + k - 1) % Len(GradientColors)) + 1]] :
        k \in GradientShifts, n \in 0..MaxColors }

DefaultMaxGradients == 20

GradientOptions ==
    [includeVariations : BOOLEAN, maxGradients : {DefaultMaxGradients, 8}]

NoGradient == [id |-> <<>>, type |-> "", direction |-> <<>>, stops |-> <<>>]

GradIdle ==
    grad = [stage |-> "idle", api |-> "", colors |-> <<>>,
            options |-> [includeVariations |-> TRUE, maxGradients |-> DefaultMaxGradients],
            gradients |-> <<>>, threw |-> FALSE, message |-> "",
            metadata |-> [colorCount |-> 0, gradientCount |-> 0],
            selected |-> NoGradient, variations |-> <<>>]

\* generateGradients of gradient-utils applied to the drawn colours
GenerateGradients ==
    /\ grad.stage = "input"
    /\ grad' = [grad EXCEPT !.stage = "done", !.api = "generateGradients",
                            !.gradients = generateGradients(grad.colors)]
    /\ UNCHANGED <<pageVars, parse, conv, run, contrast>>

\* GradientGenerator.generateGradientCollection applied to the drawn colours
GenerateGradientCollection ==
    /\ grad.stage = "input"
    /\ LET result == generateGradientCollection(grad.colors, grad.options)
       IN  grad' = [grad EXCEPT
                      !.stage = IF result.threw THEN "error" ELSE "done",
                      !.api = "generateGradientCollection",
                      !.gradients = result.gradients,
                      !.threw = result.threw,
                      !.message = result.message,
                      !.metadata = result.metadata]
    /\ UNCHANGED <<pageVars, parse, conv, run, contrast>>

\* The gradient panel showing the variations of a linear gradient it selected
ShowVariations ==
    /\ grad.stage = "done"
    /\ grad.api = "generateGradients"
    /\ \E i \in 1..Len(grad.gradients) :
          /\ grad.gradients[i].type = "linear"
          /\ grad' = [grad EXCEPT
                        !.stage = "varied",
                        !.selected = grad.gradients[i],
                        !.variations = generateGradientVariations(grad.gradients[i])]
    /\ UNCHANGED <<pageVars, parse, conv, run, contrast>>

\* The direction select of the gradient panel, enabled for linear gradients
UpdateGradientDirection ==
    /\ grad.stage = "done"
    /\ grad.api = "generateGradients"
    /\ \E i \in 1..Len(grad.gradients), k \in 1..Len(DIRECTIONS) :
          /\ grad.gradients[i].type = "linear"
          /\ grad' = [grad EXCEPT
                        !.stage = "updated",
                        !.selected = grad.gradients[i],
                        !.variations =
                            <<updateGradientDirection(grad.gradients[i], DIRECTIONS[k])>>]
    /\ UNCHANGED <<pageVars, parse, conv, run, contrast>>

(***************************************************************************)
(* Contrast: contrast-utils and the contrast checker                       *)
(***************************************************************************)
\* A ratio is kept as the fraction <<numerator, denominator>>, denominator
\* positive; ratio >= k as numerator >= k * denominator.
AtLeast(ratio, num, den) == ratio[1] * den >= num * ratio[2]

ContrastResult(ratio, level, normalText, largeText, uiComponents) ==
    [ratio |-> ratio, level |-> level, normalText |-> normalText,
     largeText |-> largeText, uiComponents |-> uiComponents]

\* A slip in the first threshold: 7 itself is no longer AAA.
evaluateContrastAbove(ratio) ==
    IF ~AtLeast(<<7, 1>>, ratio[1], ratio[2]) THEN ContrastResult(ratio, "AAA", TRUE, TRUE, TRUE)
    ELSE IF AtLeast(ratio, 9, 2) THEN ContrastResult(ratio, "AA", TRUE, TRUE, TRUE)
    ELSE IF AtLeast(ratio, 3, 1) THEN ContrastResult(ratio, "AA Large", FALSE, TRUE, TRUE)
    ELSE ContrastResult(ratio, "Fail", FALSE, FALSE, FALSE)

\* evaluateContrast: the chain ratio >= 7, ratio >= 4.5, ratio >= 3, else
evaluateContrast(ratio) ==
    IF AtLeast(ratio, 7, 1) THEN ContrastResult(ratio, "AAA", TRUE, TRUE, TRUE)
    ELSE IF AtLeast(ratio, 9, 2) THEN ContrastResult(ratio, "AA", TRUE, TRUE, TRUE)
    ELSE IF AtLeast(ratio, 3, 1) THEN ContrastResult(ratio, "AA Large", FALSE, TRUE, TRUE)
    ELSE ContrastResult(ratio, "Fail", FALSE, FALSE, FALSE)

\* the ratios drawn: (lighter + 0.05) / (darker + 0.05) lies between 1 and 21;
\* a grid of RatioDen-ths, the thresholds and their near neighbours
RatioDen == 20

MaxRatio == 21

Ratios ==
    {<<n, RatioDen>> : n \in RatioDen..(MaxRatio * RatioDen)}
        \cup {<<3, 1>>, <<9, 2>>, <<7, 1>>}
        \cup {<<2999, 1000>>, <<3001, 1000>>, <<4499, 1000>>, <<4501, 1000>>,
              <<6999, 1000>>, <<7001, 1000>>}

NoContrast == ContrastResult(<<0, 1>>, "", FALSE, FALSE, FALSE)

ContrastIdle ==
    contrast = [stage |-> "idle", ratio |-> <<0, 1>>, contrastResult |-> NoContrast,
                baseColor |-> NoText, targetRatio |-> <<9, 2>>, suggestions |-> <<>>]

\* the checker's effect: const result = evaluateContrast(ratio); setContrastResult(result)
EvaluateContrast ==
    /\ contrast.stage = "ratio"
    /\ contrast' = [contrast EXCEPT !.stage = "done",
                                    !.contrastResult = evaluateContrast(contrast.ratio)]
    /\ UNCHANGED <<pageVars, parse, conv, run, grad>>

\* hexToRgbNumbers: the channels under /^#?([a-f\d]{2})([a-f\d]{2})([a-f\d]{2})$/i,
\* NoRgb for null
hexToRgbNumbers(hex) == IF HexPairsMatch(hex) THEN ColorUtils_hexToRgb(hex) ELSE NoRgb

\* rgbStringToNumbers: the three digit runs of rgb.match(/\d+/g), NoRgb for null
rgbStringToNumbers(rgb) ==
    LET result == DigitRuns(rgb, <<>>)
    IN  IF Len(result) # 3 THEN NoRgb
        ELSE [r |-> ParseDec(result[1]), g |-> ParseDec(result[2]), b |-> ParseDec(result[3])]

\* Linear channel values are kept in units of 1 / LinearScale, luminances in
\* units of 1 / (10000 * LinearScale), contrast ratios to RatioDigits decimals.
LinearScale == 10000

RatioDigits == 6

RatioScale == 10 ^ RatioDigits

\* r^5 in units of 1 / LinearScale
Pow5(r) ==
    LET r2 == (r * r) \div LinearScale
        r3 == (r2 * r) \div LinearScale
        r4 == (r3 * r) \div LinearScale
    IN  (r4 * r) \div LinearScale

\* the fifth root of y: the largest r in lo..hi with r^5 <= y
RECURSIVE Root5(_, _, _)
Root5(y, lo, hi) ==
    IF lo >= hi THEN lo
    ELSE IF Pow5((lo + hi + 1) \div 2) <= y THEN Root5(y, (lo + hi + 1) \div 2, hi)
    ELSE Root5(y, lo, ((lo + hi + 1) \div 2) - 1)

\* Math.pow(x, 2.4) = x^2 * (x^2)^(1/5), on x in units of 1 / LinearScale
Pow24(x) == (((x * x) \div LinearScale) * Root5((x * x) \div LinearScale, 0, LinearScale))
                \div LinearScale

\* sRGB <= 0.03928 ? sRGB / 12.92 : Math.pow((sRGB + 0.055) / 1.055, 2.4),
\* with sRGB = c / 255; (c / 255 + 0.055) / 1.055 = (40 c + 561) / 10761
Linear(c) ==
    IF 100000 * c <= 3928 * 255 THEN Round(100 * c * LinearScale, 255 * 1292)
    ELSE Pow24(Round((40 * c + 561) * LinearScale, 10761))

\* getRelativeLuminance: 0.2126 R + 0.7152 G + 0.0722 B of the linear channels
getRelativeLuminance(r, g, b) == 2126 * Linear(r) + 7152 * Linear(g) + 722 * Linear(b)

\* n / d to k more decimal digits, by long division
RECURSIVE DivideDigits(_, _, _, _)
DivideDigits(quotient, rem, d, k) ==
    IF k = 0 THEN quotient
    ELSE DivideDigits(10 * quotient + ((10 * rem) \div d), (10 * rem) % d, d, k - 1)

\* (lighter + 0.05) / (darker + 0.05) as a fraction over RatioScale
RatioOf(lighter, darker) ==
    <<DivideDigits((lighter + 500 * LinearScale) \div (darker + 500 * LinearScale),
                   (lighter + 500 * LinearScale) % (darker + 500 * LinearScale),
                   darker + 500 * LinearScale, RatioDigits),
      RatioScale>>

\* null of getContrastRatio; 0 and null are both falsy in "ratio && ..."
NoRatio == <<0, 1>>

\* the channels of a colour text by its format, NoRgb for null
RgbOfText(color) ==
    IF StartsWith(color, <<"#">>) THEN hexToRgbNumbers(color)
    ELSE rgbStringToNumbers(color)

RatioOfRgb(rgb1, rgb2) ==
    IF rgb1 = NoRgb \/ rgb2 = NoRgb THEN NoRatio
    ELSE RatioOf(Max2(getRelativeLuminance(rgb1.r, rgb1.g, rgb1.b),
                      getRelativeLuminance(rgb2.r, rgb2.g, rgb2.b)),
                 Min2(getRelativeLuminance(rgb1.r, rgb1.g, rgb1.b),
                      getRelativeLuminance(rgb2.r, rgb2.g, rgb2.b)))

\* getContrastRatio: null unless each text starts with "#" or "rgb" and parses
getContrastRatio(color1, color2) ==
    IF ~(StartsWith(color1, <<"#">>) \/ StartsWith(color1, <<"r", "g", "b">>)) THEN NoRatio
    ELSE IF ~(StartsWith(color2, <<"#">>) \/ StartsWith(color2, <<"r", "g", "b">>))
    THEN NoRatio
    ELSE RatioOfRgb(RgbOfText(color1), RgbOfText(color2))

\* ratio && ratio >= targetRatio
Meets(ratio, targetRatio) ==
    /\ ratio[1] # 0
    /\ ratio[1] * targetRatio[2] >= targetRatio[1] * ratio[2]

White == <<"#", "F", "F", "F", "F", "F", "F">>

Black == <<"#", "0", "0", "0", "0", "0", "0">>

\* `#${i.toString(16).padStart(2, "0").repeat(3)}`
GrayHex(i) == <<"#">> \o HexPair(i) \o HexPair(i) \o HexPair(i)

GrayStep == 17

\* the entry pushed for a colour when its ratio meets the target
Pushed(suggestions, color, ratio, targetRatio) ==
    IF Meets(ratio, targetRatio) THEN Append(suggestions, [color |-> color, ratio |-> ratio])
    ELSE suggestions

\* for (let i = 0; i <= 255; i += 17): push the gray unless its text is there
RECURSIVE GrayLoop(_, _, _, _)
GrayLoop(suggestions, i, baseColor, targetRatio) ==
    IF i > 255 THEN suggestions
    ELSE IF \E k \in 1..Len(suggestions) : suggestions[k].color = GrayHex(i)
    THEN GrayLoop(suggestions, i + GrayStep, baseColor, targetRatio)
    ELSE GrayLoop(Pushed(suggestions, GrayHex(i), getContrastRatio(baseColor, GrayHex(i)),
                         targetRatio),
                  i + GrayStep, baseColor, targetRatio)

\* A slip in the ranking: the suggestions stay in the order they were pushed.
SortByRatioUnsorted(sorted, rest) == sorted \o rest

\* Array.prototype.sort((a, b) => b.ratio - a.ratio): stable, ratio descending
\* (the ratios share the denominator RatioScale)
RECURSIVE SortByRatio(_, _)
SortByRatio(sorted, rest) ==
    IF rest = <<>> THEN sorted
    ELSE SortByRatio(SubSeq(sorted, 1,
                            Cardinality({i \in 1..Len(sorted) :
                                            sorted[i].ratio[1] >= Head(rest).ratio[1]}))
                        \o <<Head(rest)>>
                        \o SubSeq(sorted,
                                  Cardinality({i \in 1..Len(sorted) :
                                                  sorted[i].ratio[1] >= Head(rest).ratio[1]}) + 1,
                                  Len(sorted)),
                     Tail(rest))

MaxSuggestions == 5

\* A slip in the truncation: only the best suggestion is returned.
suggestBetterContrastBest(baseColor, targetRatio) ==
    IF RgbOfText(baseColor) = NoRgb THEN <<>>
    ELSE Slice(SortByRatio(<<>>,
                   GrayLoop(Pushed(Pushed(<<>>, White, getContrastRatio(baseColor, White),
                                          targetRatio),
                                   Black, getContrastRatio(baseColor, Black), targetRatio),
                            0, baseColor, targetRatio)),
               1)

\* suggestBetterContrast
suggestBetterContrast(baseColor, targetRatio) ==
    IF RgbOfText(baseColor) = NoRgb THEN <<>>
    ELSE Slice(SortByRatio(<<>>,
                   GrayLoop(Pushed(Pushed(<<>>, White, getContrastRatio(baseColor, White),
                                          targetRatio),
                                   Black, getContrastRatio(baseColor, Black), targetRatio),
                            0, baseColor, targetRatio)),
               MaxSuggestions)

\* the base colours drawn: hex texts, "rgb(...)" texts, and texts that are no
\* colour or start with neither "#" nor "rgb"
BaseHexes ==
    {<<"#", "3", "B", "8", "2", "F", "6">>, <<"#", "0", "0", "0", "0", "0", "0">>,
     <<"#", "F", "F", "F", "F", "F", "F">>, <<"#", "f", "f", "f", "f", "f", "f">>,
     <<"#", "8", "0", "8", "0", "8", "0">>, <<"#", "C", "8", "8", "0", "8", "0">>,
     <<"#", "0", "0", "C", "8", "0", "0">>, <<"#", "F", "F", "0", "0", "0", "0">>,
     <<"#", "0", "0", "F", "F", "0", "0">>, <<"#", "0", "0", "0", "0", "F", "F">>,
     <<"#", "F", "A", "C", "C", "1", "5">>, <<"#", "8", "B", "5", "C", "F", "6">>,
     <<"#", "E", "C", "4", "8", "9", "9">>, <<"#", "1", "0", "B", "9", "8", "1">>,
     <<"#", "1", "1", "1", "1", "1", "1">>, <<"#", "e", "e", "e", "e", "e", "e">>,
     <<"#", "7", "7", "7", "7", "7", "7">>, <<"#", "7", "6", "7", "6", "7", "6">>,
     <<"#", "9", "5", "9", "5", "9", "5">>, <<"#", "1", "E", "2", "9", "3", "B">>,
     <<"#", "F", "5", "9", "E", "0", "B">>, <<"#", "E", "F", "4", "4", "4", "4">>,
     <<"#", "6", "B", "7", "2", "8", "0">>, <<"#", "7", "f", "7", "f", "7", "f">>,
     <<"#", "C", "8", "C", "8", "C", "8">>, <<"#", "4", "0", "4", "0", "4", "0">>,
     <<"#", "0", "F", "1", "7", "2", "A">>, <<"#", "A", "3", "E", "6", "3", "5">>,
     <<"#", "F", "9", "7", "3", "1", "6">>, <<"#", "6", "4", "7", "4", "8", "B">>,
     <<"#", "9", "4", "A", "3", "B", "8">>, <<"#", "1", "4", "B", "8", "A", "6">>,
     <<"#", "D", "9", "4", "6", "E", "F">>, <<"#", "3", "3", "4", "1", "5", "5">>}

BaseColors ==
    BaseHexes
        \cup {RgbText(59, 130, 246), RgbText(0, 0, 0), RgbText(200, 128, 128),
              <<"r", "e", "d">>, <<"3", "B", "8", "2", "F", "6">>, <<"#", "f", "f", "f">>}

TargetRatios == {<<3, 2>>, <<3, 1>>, <<9, 2>>, <<7, 1>>}

\* handleSuggestColors: setSuggestions(suggestBetterContrast(backgroundColor, target))
SuggestBetterContrast ==
    /\ contrast.stage = "base"
    /\ contrast' = [contrast EXCEPT
                        !.stage = "suggested",
                        !.suggestions = suggestBetterContrast(contrast.baseColor,
                                                              contrast.targetRatio)]
    /\ UNCHANGED <<pageVars, parse, conv, run, grad>>

(***************************************************************************)
(* Specifications                                                          *)
(***************************************************************************)
\* The main page.
Init == PageIdle /\ ParseIdle /\ ConvIdle /\ RunIdle /\ GradIdle /\ ContrastIdle

Next == Mount \/ ChangeInput \/ SelectHistory

Spec == Init /\ [][Next]_vars

\* processColor as a function of its text.
InitParse ==
    /\ PageIdle /\ ConvIdle /\ RunIdle /\ GradIdle /\ ContrastIdle
    /\ parse \in [text : ParseTexts, done : {FALSE}, result : {IdleResult}]

NextParse == ParseStep

SpecParse == InitParse /\ [][NextParse]_vars

\* The conversions as functions of a drawn colour.
InitHsl ==
    /\ PageIdle /\ ParseIdle /\ RunIdle /\ GradIdle /\ ContrastIdle
    /\ \E c \in SampleColors :
          conv = [stage |-> "rgb", rgb |-> c, via |-> "", hsl |-> NoHsl,
                  out |-> NoRgb, hex |-> NoText, mono |-> <<>>, palettes |-> NoPalettes]

NextHsl ==
    \/ RgbToHslStep
    \/ GeneratorHexToHslStep
    \/ HexToHslStep
    \/ HslToRgbStep
    \/ MonochromaticStep
    \/ GenerateColorPalettesStep

SpecHsl == InitHsl /\ [][NextHsl]_vars

\* One analysis of a drawn pixel buffer under drawn options.
InitCluster ==
    /\ PageIdle /\ ParseIdle /\ ConvIdle /\ GradIdle /\ ContrastIdle
    /\ \E pixels \in PixelBuffers, options \in AnalysisOptions :
          run = [stage |-> "loaded", engine |-> "", pixels |-> pixels, options |-> options,
                 colorCounts |-> <<>>, validPixels |-> 0, groupedColors |-> <<>>,
                 totals |-> [r |-> 0, g |-> 0, b |-> 0], dominantColors |-> <<>>,
                 averageColor |-> NoAverage,
           averageHsl |-> NoAverageHsl, averageName |-> "", palette |-> <<>>]

NextCluster == AnalyzeImage \/ LegacyAnalyzeImage

SpecCluster == InitCluster /\ [][NextCluster]_vars

(***************************************************************************)
(* The analysis panel (standalone-color-analysis.tsx): handleFileUpload    *)
(* and the analyses it has started                                         *)
(***************************************************************************)
MaxUploads == 3

MaxMegabytes == 50

ValidTypes ==
    {"image/jpeg", "image/jpg", "image/png", "image/gif", "image/webp", "image/bmp"}

\* ColorAnalysisEngine.validateImageFile
validateImageFile(file) ==
    IF file.type \notin ValidTypes
    THEN [isValid |-> FALSE,
          error |-> "Invalid file format. Please use JPG, PNG, GIF, WebP, or BMP."]
    ELSE IF file.size > MaxMegabytes
    THEN [isValid |-> FALSE, error |-> "File too large. Maximum size is 50MB."]
    ELSE [isValid |-> TRUE, error |-> ""]

\* The files of a session: two images with different colours, an image that
\* does not decode, a text file and an image above the size limit
UploadFiles ==
    { [name |-> "first.png", type |-> "image/png", size |-> 1, decodes |-> TRUE,
       pixels |-> << [r |-> 10, g |-> 9, b |-> 0, a |-> 255],
                     [r |-> 10, g |-> 9, b |-> 0, a |-> 255] >>],
      [name |-> "second.png", type |-> "image/png", size |-> 1, decodes |-> TRUE,
       pixels |-> << [r |-> 255, g |-> 0, b |-> 0, a |-> 255],
                     [r |-> 0, g |-> 9, b |-> 0, a |-> 127] >>],
      [name |-> "broken.gif", type |-> "image/gif", size |-> 1, decodes |-> FALSE,
       pixels |-> <<>>],
      [name |-> "notes.txt", type |-> "text/plain", size |-> 1, decodes |-> FALSE,
       pixels |-> <<>>],
      [name |-> "huge.bmp", type |-> "image/bmp", size |-> MaxMegabytes + 1,
       decodes |-> TRUE, pixels |-> <<>>] }

NoResult == [dominantColors |-> <<>>, totalPixels |-> -1, averageColor |-> NoAverage]

\* What analyzeImage resolves with for the pixels of one file, each call on
\* accumulators of its own
AnalysisOf(pixels, options) ==
    LET scan == ScanPixels(NoScan, pixels)
        groupedColors ==
            WithPercentages(
                ColorAnalysisEngine_groupSimilarColors(scan.colorCounts,
                                                       options.groupingThreshold),
                scan.validPixels)
    IN  [dominantColors |->
             Slice(SortByCount(<<>>, AtLeastMinPercentage(groupedColors,
                                                          options.minPercentage)),
                   options.maxColors),
         totalPixels |-> scan.validPixels,
         averageColor |-> AverageColor(scan.totalR, scan.totalG, scan.totalB,
                                       scan.validPixels)]

PanelAnalysisOptions == [maxColors |-> 10, minPercentage |-> 10, groupingThreshold |-> 25]

ExtractedColors(result) ==
    [i \in 1..Len(result.dominantColors) |-> result.dominantColors[i].hex]

\* handleFileUpload up to its await: the error and the result are cleared,
\* an invalid file is refused, a valid one is previewed and its analysis is
\* started
HandleFileUpload ==
    /\ run.stage = "upload"
    /\ run.uploads < MaxUploads
    /\ \E file \in UploadFiles :
          LET validation == validateImageFile(file)
          IN  run' = IF ~validation.isValid
                     THEN [run EXCEPT !.uploads = run.uploads + 1,
                                      !.latest = 0,
                                      !.analysisResult = NoResult,
                                      !.error = validation.error]
                     ELSE [run EXCEPT !.uploads = run.uploads + 1,
                                      !.latest = Len(run.calls) + 1,
                                      !.analysisResult = NoResult,
                                      !.error = "",
                                      !.isAnalyzing = TRUE,
                                      !.uploadedImage = file.name,
                                      !.calls = Append(run.calls,
                                                       [file |-> file,
                                                        status |-> "pending"])]
    /\ UNCHANGED <<pageVars, parse, conv, grad, contrast>>

\* The analysis of one call resolves: the rest of the try block and the
\* finally block of that call
ResolveAnalysis ==
    /\ run.stage = "upload"
    /\ \E k \in 1..Len(run.calls) :
          /\ run.calls[k].status = "pending"
          /\ run.calls[k].file.decodes
          /\ LET result == AnalysisOf(run.calls[k].file.pixels, PanelAnalysisOptions)
             IN  run' = [run EXCEPT !.calls[k].status = "resolved",
                                    !.analysisResult = result,
                                    !.extracted = ExtractedColors(result),
                                    !.toast = "Analysis Complete!",
                                    !.isAnalyzing = FALSE]
    /\ UNCHANGED <<pageVars, parse, conv, grad, contrast>>

\* The analysis of one call rejects (img.onerror): the catch block and the
\* finally block of that call
RejectAnalysis ==
    /\ run.stage = "upload"
    /\ \E k \in 1..Len(run.calls) :
          /\ run.calls[k].status = "pending"
          /\ ~run.calls[k].file.decodes
          /\ run' = [run EXCEPT !.calls[k].status = "rejected",
                                !.error = "Error analyzing image. Please try another image.",
                                !.isAnalyzing = FALSE]
    /\ UNCHANGED <<pageVars, parse, conv, grad, contrast>>

InitUpload ==
    /\ PageIdle /\ ParseIdle /\ ConvIdle /\ GradIdle /\ ContrastIdle
    /\ run = [stage |-> "upload", isAnalyzing |-> FALSE, analysisResult |-> NoResult,
              uploadedImage |-> "", error |-> "", extracted |-> <<>>, toast |-> "",
              calls |-> <<>>, uploads |-> 0, latest |-> 0]

NextUpload == HandleFileUpload \/ ResolveAnalysis \/ RejectAnalysis

SpecUpload == InitUpload /\ [][NextUpload]_vars

\* One gradient generation from drawn colours under drawn options.
\* The hues hexToHsl can return, the pairs of triples one interpolation is
\* given, and the step counts of the callers
HueStep == 5

StartHues == 0..360

EndHues == {h \in 0..360 : h % HueStep = 0} \cup {1, 179, 181, 359}

InterpolationSteps == {4, 5}

\* interpolateColors and the loop of createSmoothGradient between one pair of
\* triples: the hue difference, the triples passed to hslToHex, the result
InterpolateColors ==
    /\ grad.stage = "pair"
    /\ grad' = [grad EXCEPT !.stage = "interpolated",
                            !.hDiff = HueDifference(grad.hsl1.h, grad.hsl2.h),
                            !.passed = [k \in 1..grad.steps |->
                                           InterpolatedHsl(grad.hsl1, grad.hsl2, k - 1,
                                                           grad.steps - 1)],
                            !.result = InterpolateHsl(grad.hsl1, grad.hsl2, grad.steps)]
    /\ UNCHANGED <<pageVars, parse, conv, run, contrast>>

InitInterpolate ==
    /\ PageIdle /\ ParseIdle /\ ConvIdle /\ RunIdle /\ ContrastIdle
    /\ \E h1 \in StartHues, h2 \in EndHues, steps \in InterpolationSteps :
          grad = [stage |-> "pair", hsl1 |-> [h |-> h1, s |-> 100, l |-> 50],
                  hsl2 |-> [h |-> h2, s |-> 60, l |-> 40], steps |-> steps,
                  hDiff |-> 0, passed |-> <<>>, result |-> <<>>]

NextInterpolate == InterpolateColors

SpecInterpolate == InitInterpolate /\ [][NextInterpolate]_vars

\* The main page in a session drawn on a long history
InitHistory ==
    /\ ParseIdle /\ ConvIdle /\ RunIdle /\ GradIdle /\ ContrastIdle
    /\ mounted = TRUE
    /\ \E count \in TypedCounts :
          /\ inputColor = PageAfter(count).inputColor
          /\ colorData = PageAfter(count).colorData
          /\ colorHistory = PageAfter(count).colorHistory
    /\ pending \in Sessions

NextHistory == TypeColor \/ ClickHistory

SpecHistory == InitHistory /\ [][NextHistory]_vars

InitGradient ==
    /\ PageIdle /\ ParseIdle /\ ConvIdle /\ RunIdle /\ ContrastIdle
    /\ \E colors \in ColorLists, options \in GradientOptions :
          grad = [stage |-> "input", api |-> "", colors |-> colors, options |-> options,
                  gradients |-> <<>>, threw |-> FALSE, message |-> "",
                  metadata |-> [colorCount |-> 0, gradientCount |-> 0],
                  selected |-> NoGradient, variations |-> <<>>]

NextGradient ==
    \/ GenerateGradients
    \/ GenerateGradientCollection
    \/ ShowVariations
    \/ UpdateGradientDirection

SpecGradient == InitGradient /\ [][NextGradient]_vars

(***************************************************************************)
(* The gradient generator panel (standalone-gradient-generator.tsx):       *)
(* colors, newColor, gradientCollection, selectedGradient                  *)
(***************************************************************************)
MinColors == 2

RandomBase == 3

RandomSpan == 4

InitialColors == Slice(GradientColors, 3)

DefaultNewColor == GradientColors[4]

PanelOptions == [includeVariations |-> TRUE, maxGradients |-> DefaultMaxGradients]

NoCollection ==
    [threw |-> FALSE, message |-> "", gradients |-> <<>>,
     metadata |-> [colorCount |-> 0, gradientCount |-> 0]]

\* generateGradients of the panel: the collection of the current colours, or
\* the error toast when generateGradientCollection throws
PanelGenerate(panel) ==
    LET collection == generateGradientCollection(panel.colors, PanelOptions)
    IN  IF collection.threw
        THEN [panel EXCEPT !.passed = panel.colors, !.toast = "Generation Error"]
        ELSE [panel EXCEPT !.passed = panel.colors, !.toast = "Gradients Generated!",
                           !.gradientCollection = collection,
                           !.selectedGradient = collection.gradients[1]]

\* setColors and the effect on colors: generation from two colours on
setColors(panel, colors) ==
    LET next == [panel EXCEPT !.colors = colors]
    IN  IF Len(colors) >= 2 THEN PanelGenerate(next) ELSE next

addColor(panel) ==
    IF /\ Len(panel.colors) < MaxColors
       /\ \A i \in 1..Len(panel.colors) : panel.colors[i] # panel.newColor
    THEN [setColors(panel, Append(panel.colors, panel.newColor))
             EXCEPT !.newColor = DefaultNewColor]
    ELSE panel

Without(colors, index) ==
    [i \in 1..(Len(colors) - 1) |-> IF i < index THEN colors[i] ELSE colors[i + 1]]

\* A slip in removeColor: the last but one colour can be removed.
removeColorToOne(panel, index) ==
    IF Len(panel.colors) > 1 THEN setColors(panel, Without(panel.colors, index)) ELSE panel

removeColor(panel, index) ==
    IF Len(panel.colors) > MinColors
    THEN setColors(panel, Without(panel.colors, index))
    ELSE panel

updateColor(panel, index, color) ==
    setColors(panel, [panel.colors EXCEPT ![index] = color])

\* randomizeColors with the colours Math.random delivered
randomizeColors(panel, randomColors) == setColors(panel, randomColors)

\* The panel after its first effect and after `count` further colours were
\* picked and added
RECURSIVE PanelAfter(_)
PanelAfter(count) ==
    IF count = 0
    THEN setColors([colors |-> <<>>, newColor |-> DefaultNewColor,
                    gradientCollection |-> NoCollection, selectedGradient |-> NoGradient,
                    passed |-> <<>>, toast |-> ""],
                   InitialColors)
    ELSE addColor([PanelAfter(count - 1) EXCEPT !.newColor = GradientColors[3 + count]])

\* The events of a session on the panel
PanelEvent(kind, index, color, colors) ==
    [kind |-> kind, index |-> index, color |-> color, colors |-> colors]

PickedColors == {GradientColors[1], GradientColors[10]}

RemovedIndexes == {1, MaxColors}

RandomLists ==
    { [i \in 1..n |-> GradientColors[((i + 7) % Len(GradientColors)) + 1]] :
        n \in RandomBase..(RandomBase + RandomSpan - 1) }

PanelEvents ==
    {PanelEvent("add", 0, <<>>, <<>>), PanelEvent("generate", 0, <<>>, <<>>)}
        \cup {PanelEvent("pick", 0, c, <<>>) : c \in PickedColors}
        \cup {PanelEvent("remove", i, <<>>, <<>>) : i \in RemovedIndexes}
        \cup {PanelEvent("update", 2, c, <<>>) : c \in PickedColors}
        \cup {PanelEvent("randomize", 0, <<>>, list) : list \in RandomLists}

PanelSessions == UNION {[1..n -> PanelEvents] : n \in 1..MaxEvents}

AddedCounts == {0, 6, 7}

PanelOf(g) ==
    [colors |-> g.colors, newColor |-> g.newColor,
     gradientCollection |-> g.gradientCollection, selectedGradient |-> g.selectedGradient,
     passed |-> g.passed, toast |-> g.toast]

PanelState(panel) ==
    [stage |-> "panel", colors |-> panel.colors, newColor |-> panel.newColor,
     gradientCollection |-> panel.gradientCollection,
     selectedGradient |-> panel.selectedGradient,
     passed |-> panel.passed, toast |-> panel.toast]

PanelStep(kind) ==
    /\ grad.stage = "panel"
    /\ pending # <<>> /\ Head(pending).kind = kind
    /\ pending' = Tail(pending)
    /\ UNCHANGED <<inputColor, colorData, colorHistory, mounted, parse, conv, run, contrast>>

\* The colour input next to the Add button: setNewColor
PickNewColor ==
    /\ PanelStep("pick")
    /\ grad' = [grad EXCEPT !.newColor = Head(pending).color]

AddColor ==
    /\ PanelStep("add")
    /\ grad' = PanelState(addColor(PanelOf(grad)))

\* The remove button of a swatch the list shows
RemoveColor ==
    /\ PanelStep("remove")
    /\ grad' = IF Head(pending).index <= Len(grad.colors)
               THEN PanelState(removeColor(PanelOf(grad), Head(pending).index))
               ELSE grad

UpdateColor ==
    /\ PanelStep("update")
    /\ grad' = PanelState(updateColor(PanelOf(grad), Head(pending).index,
                                      Head(pending).color))

RandomizeColors ==
    /\ PanelStep("randomize")
    /\ grad' = PanelState(randomizeColors(PanelOf(grad), Head(pending).colors))

\* The Generate button, disabled below two colours
ClickGenerate ==
    /\ PanelStep("generate")
    /\ grad' = IF Len(grad.colors) < 2 THEN grad
               ELSE PanelState(PanelGenerate(PanelOf(grad)))

InitPanel ==
    /\ inputColor = InitialInput /\ colorData = InitialColorData
    /\ colorHistory = <<>> /\ mounted = FALSE
    /\ ParseIdle /\ ConvIdle /\ RunIdle /\ ContrastIdle
    /\ \E count \in AddedCounts : grad = PanelState(PanelAfter(count))
    /\ pending \in PanelSessions

NextPanel ==
    \/ PickNewColor
    \/ AddColor
    \/ RemoveColor
    \/ UpdateColor
    \/ RandomizeColors
    \/ ClickGenerate

SpecPanel == InitPanel /\ [][NextPanel]_vars

\* One evaluation of a drawn contrast ratio.
InitContrast ==
    /\ PageIdle /\ ParseIdle /\ ConvIdle /\ RunIdle /\ GradIdle
    /\ \E ratio \in Ratios :
          contrast = [stage |-> "ratio", ratio |-> ratio, contrastResult |-> NoContrast,
                      baseColor |-> NoText, targetRatio |-> <<9, 2>>, suggestions |-> <<>>]

NextContrast == EvaluateContrast

SpecContrast == InitContrast /\ [][NextContrast]_vars

\* One list of suggestions for a drawn base colour and target ratio.
InitSuggest ==
    /\ PageIdle /\ ParseIdle /\ ConvIdle /\ RunIdle /\ GradIdle
    /\ \E baseColor \in BaseColors, targetRatio \in TargetRatios :
          contrast = [stage |-> "base", ratio |-> <<0, 1>>, contrastResult |-> NoContrast,
                      baseColor |-> baseColor, targetRatio |-> targetRatio,
                      suggestions |-> <<>>]

NextSuggest == SuggestBetterContrast

SpecSuggest == InitSuggest /\ [][NextSuggest]_vars

(***************************************************************************)
(* Colour text parsing: claims C3 to C7                                    *)
(***************************************************************************)
Blank(t) == Trim(t) = <<>>

\* '#' followed by exactly six upper-case hexadecimal digits
IsCanonicalHex(t) ==
    /\ Len(t) = 7
    /\ t[1] = "#"
    /\ \A i \in 2..7 : t[i] \in Range(HexUpperChars)

\* C3 (as stated): processColor accepts every 3-digit and every 6-digit
\* hexadecimal text, with or without a leading '#'.
C3_HexAccepted ==
    (parse.done /\ Len(AfterHash(parse.text)) \in {3, 6} /\ AllHexDigits(AfterHash(parse.text)))
        => parse.result.isValid

\* C4 (as stated): processColor accepts every text rgb(r, g, b) whose channels
\* are all in 0..255 and rejects it when a channel is above 255.
C4_RgbAccepted ==
    \A r \in RgbChannels, g \in RgbChannels, b \in RgbChannels :
        (parse.done /\ parse.text = RgbText(r, g, b))
            => (parse.result.isValid <=> (r <= 255 /\ g <= 255 /\ b <= 255))

\* C5: every text processColor does not accept yields a result with
\* isValid = false, an empty hex, an empty rgb and a non-empty error message.
C5_RejectedResult ==
    (parse.done /\ ~parse.result.isValid)
        => /\ parse.result.hex = NoText
           /\ parse.result.rgb = NoText
           /\ parse.result.error # ""

\* C5 witness: a text that passed isValidHex and was rejected by hexToRgb.
C5_Witness ==
    /\ parse.done
    /\ isValidHex(Trim(parse.text))
    /\ ~parse.result.isValid
    /\ parse.result.error = "Color hexadecimal invalido"

\* C6 (as stated): entering a text that processColor rejects leaves the
\* previously converted valid colour and the history unchanged.
C6_PriorStateKept ==
    [][(mounted /\ colorData.isValid /\ inputColor' # inputColor
            /\ ~processColor(inputColor').isValid)
        => (colorData' = colorData /\ colorHistory' = colorHistory)]_vars

\* C6 (amended): entering a text that processColor rejects leaves the history
\* unchanged; a blank text leaves colorData unchanged too, any other rejected
\* text replaces colorData by the rejected result (isValid = false, empty hex
\* and rgb, an error message).
C6_RejectedInput ==
    [][(mounted /\ inputColor' # inputColor /\ ~processColor(inputColor').isValid)
        => /\ colorHistory' = colorHistory
           /\ Blank(inputColor') => colorData' = colorData
           /\ ~Blank(inputColor') =>
                /\ ~colorData'.isValid
                /\ colorData'.hex = NoText
                /\ colorData'.rgb = NoText
                /\ colorData'.error # ""]_vars

\* C6 witness: a rejected text was entered after valid colours were recorded.
C6_Witness ==
    /\ mounted
    /\ ~Blank(inputColor)
    /\ ~colorData.isValid
    /\ Len(colorHistory) >= 2

\* C7 (as stated): for every valid 6-digit hex text H the hex of
\* processColor(H) is the upper-cased H, and is '#' plus six upper-case digits.
C7_RoundTrip ==
    (parse.done /\ HexPairsMatch(parse.text))
        => /\ parse.result.hex = ToUpperCase(parse.text)
           /\ IsCanonicalHex(parse.result.hex)

\* C7 (amended): for every valid 6-digit hex text H, with or without '#', the
\* hex of processColor(H) is '#' followed by the six digits of H upper-cased,
\* which is the upper-cased H exactly when H starts with '#'.
C7_RoundTripHash ==
    (parse.done /\ HexPairsMatch(parse.text))
        => /\ parse.result.isValid
           /\ parse.result.hex = <<"#">> \o ToUpperCase(AfterHash(parse.text))
           /\ IsCanonicalHex(parse.result.hex)
           /\ (Head(parse.text) = "#") <=> (parse.result.hex = ToUpperCase(parse.text))

\* C7 witness: a six-digit text without '#' and with a lower-case digit.
C7_Witness ==
    /\ parse.done
    /\ HexPairsMatch(parse.text)
    /\ Head(parse.text) # "#"
    /\ \E i \in 1..Len(parse.text) : parse.text[i] = "a"
    /\ parse.result.isValid

(***************************************************************************)
(* RGB <-> HSL: claims C8 to C10                                           *)
(***************************************************************************)
\* C8 (as stated): for every RGB triple with channels in 0..255, rgbToHsl and
\* the gradient modules' hexToHsl return a hue in 0..359, a saturation in
\* 0..100 and a lightness in 0..100.
C8_HslRanges ==
    (conv.stage \in {"hsl", "done", "mono"})
        => /\ conv.hsl.h \in 0..359
           /\ conv.hsl.s \in 0..100
           /\ conv.hsl.l \in 0..100

\* C9 (as stated): a hue of 360 yields the same colour as a hue of 0, from
\* hslToRgb, from hslToHex and in the monochromatic palette built on it.
C9_HueWraps ==
    /\ (conv.stage = "done" /\ conv.hsl.h = 360)
          => /\ conv.out = hslToRgb(0, conv.hsl.s, conv.hsl.l)
             /\ conv.hex = hslToHex(0, conv.hsl.s, conv.hsl.l)
    /\ (conv.stage = "mono" /\ conv.hsl.h = 360)
          => \A i \in 1..Len(conv.mono) :
                conv.mono[i].rgb = hslToRgb(0, conv.hsl.s, conv.mono[i].hsl.l)

\* C10 (as stated): hslToRgb(rgbToHsl(C)) differs from C by at most 1 in each
\* of the red, green and blue channels.
C10_RoundTrip ==
    (conv.stage = "done" /\ conv.via = "ColorUtils.rgbToHsl")
        => /\ Abs(conv.out.r - conv.rgb.r) <= 1
           /\ Abs(conv.out.g - conv.rgb.g) <= 1
           /\ Abs(conv.out.b - conv.rgb.b) <= 1

(***************************************************************************)
(* Pixel clustering: claims C1 and C2                                      *)
(***************************************************************************)
\* the sum of the percentages' numerators; every denominator is validPixels
RECURSIVE SumPercentages(_)
SumPercentages(seq) ==
    IF seq = <<>> THEN 0 ELSE Head(seq).percentage[1] + SumPercentages(Tail(seq))

Analysed == run.stage = "done" /\ run.validPixels > 0

\* C1 (as stated): with at least one valid pixel, the percentages of the
\* clusters returned by an analysis run sum to 100.
C1_ReturnedSumTo100 ==
    Analysed => SumPercentages(run.dominantColors) = 100 * run.validPixels

\* C1 (amended): with at least one valid pixel, the percentages of all the
\* clusters groupSimilarColors forms sum to 100 (their counts sum to the number
\* of valid pixels); the returned dominant colours are what the minPercentage
\* filter and the truncation to maxColors leave of them, so their percentages
\* sum to 100 exactly when no cluster was dropped, and to less otherwise.
C1_Conservation ==
    Analysed =>
        /\ \A i \in 1..Len(run.groupedColors) :
              run.groupedColors[i].percentage = <<run.groupedColors[i].count * 100,
                                                  run.validPixels>>
        /\ SumCounts(run.groupedColors) = run.validPixels
        /\ SumPercentages(run.groupedColors) = 100 * run.validPixels
        /\ SumPercentages(run.dominantColors) <= 100 * run.validPixels
        /\ (SumPercentages(run.dominantColors) = 100 * run.validPixels)
              <=> (Len(run.dominantColors) = Len(run.groupedColors))

\* C1 witness: a run that skipped a transparent pixel, merged two exact colours
\* into one cluster and dropped a cluster from the returned list.
C1_Witness ==
    /\ Analysed
    /\ run.validPixels < Len(run.pixels)
    /\ Len(run.groupedColors) < Len(run.colorCounts)
    /\ Len(run.dominantColors) < Len(run.groupedColors)

\* the thresholds of the page's slider: 10 to 50 in steps of 5
SliderThresholds == {10 + 5 * k : k \in 0..8}

\* the number of clusters of the run's exact colours under each threshold
ClusterCounts ==
    LET colorArray == EngineColorArray(run.colorCounts)
    IN  [t \in SliderThresholds |-> Len(GroupLoop(<<>>, colorArray, t))]

NeverMoreClusters(n) ==
    \A t1 \in SliderThresholds, t2 \in SliderThresholds : t1 < t2 => n[t2] <= n[t1]

\* C2 (as stated): for a fixed set of exact colours in a fixed insertion order
\* a larger merge threshold never returns more clusters than a smaller one.
C2_Monotone ==
    run.stage = "done" => LET n == ClusterCounts IN NeverMoreClusters(n)

\* C2 (amended): for up to three exact colours in a fixed insertion order a
\* larger threshold never returns more clusters; from four colours on the
\* greedy, order-dependent merge can return more clusters for a larger
\* threshold, and only 1 <= clusters <= exact colours holds.
C2_MonotoneUpToThree ==
    run.stage = "done" =>
        LET n == ClusterCounts
        IN  /\ Len(run.colorCounts) <= 3 => NeverMoreClusters(n)
            /\ \A t \in SliderThresholds :
                  /\ n[t] <= Len(run.colorCounts)
                  /\ run.colorCounts # <<>> => n[t] >= 1

\* C2 witness: three exact colours whose cluster count falls as the threshold grows.
C2_Witness ==
    /\ run.stage = "done"
    /\ Len(run.colorCounts) = 3
    /\ LET n == ClusterCounts IN n[10] = 2 /\ n[15] = 2 /\ n[20] = 1

(***************************************************************************)
(* Analysis results: claims C11 to C13                                     *)
(***************************************************************************)
NoValidPixel == \A i \in 1..Len(run.pixels) : run.pixels[i].a < AlphaCutoff

\* C11: analysing a pixel buffer without a valid pixel (every alpha below
\* 128) completes, returns an empty dominant-colour list, and leaves the
\* average colour undefined: its channels are NaN and its hex is not a colour.
C11_NoValidPixel ==
    /\ (run.stage = "loaded" /\ NoValidPixel)
          => (ENABLED AnalyzeImage /\ ENABLED LegacyAnalyzeImage)
    /\ (run.stage = "done" /\ NoValidPixel)
        => /\ run.validPixels = 0
           /\ run.dominantColors = <<>>
           /\ run.groupedColors = <<>>
           /\ run.palette = <<>>
           /\ ~IsCanonicalHex(run.averageColor.hex)
           /\ run.averageColor.rgb = [r |-> NaN, g |-> NaN, b |-> NaN]
           /\ run.engine = "ColorAnalysisEngine.analyzeImage"
                => /\ run.averageHsl.s = NaN /\ run.averageHsl.l = NaN
                   /\ run.averageName = "Unknown"

\* C11 witness: a finished run of the engine over transparent pixels only.
C11_Witness ==
    /\ run.stage = "done"
    /\ run.engine = "ColorAnalysisEngine.analyzeImage"
    /\ Len(run.pixels) >= 2
    /\ NoValidPixel
    /\ run.averageColor.hex = <<"#", "A", "N">>

\* C12: the dominant-colour list of an analysis run is ordered by pixel count
\* descending and holds at most maxColors entries (10 in the analyzeImage of
\* gradient-utils).
C12_SortedAndCapped ==
    run.stage = "done" =>
        /\ \A i \in 1..(Len(run.dominantColors) - 1) :
              run.dominantColors[i].count >= run.dominantColors[i + 1].count
        /\ run.engine = "ColorAnalysisEngine.analyzeImage"
              => Len(run.dominantColors) <= run.options.maxColors
        /\ run.engine = "analyzeImage"
              => Len(run.dominantColors) <= LegacyMaxColors

\* C12 witness: more than ten clusters were formed, the first exact colour
\* seen is not the most frequent one, and ten clusters were returned.
C12_Witness ==
    /\ run.stage = "done"
    /\ run.engine = "analyzeImage"
    /\ Len(run.groupedColors) > LegacyMaxColors
    /\ Len(run.dominantColors) = LegacyMaxColors
    /\ run.colorCounts[1].count = 1
    /\ run.dominantColors[1].count = 2
    /\ run.dominantColors[2].count = 2

RECURSIVE IsSubsequence(_, _)
IsSubsequence(sub, seq) ==
    IF sub = <<>> THEN TRUE
    ELSE IF seq = <<>> THEN FALSE
    ELSE IF Head(sub) = Head(seq) THEN IsSubsequence(Tail(sub), Tail(seq))
    ELSE IsSubsequence(sub, Tail(seq))

PaletteShape ==
    /\ IsSubsequence(run.palette, run.groupedColors)
    /\ \A i \in 1..(Len(run.groupedColors) - 1) :
          run.groupedColors[i].count >= run.groupedColors[i + 1].count
    /\ Len(run.palette) <= MaxPaletteSize
    /\ MinDistance > LegacyThreshold

LegacyDone == run.stage = "done" /\ run.engine = "analyzeImage"

\* C13 (as stated): the balanced palette is a subsequence of the count-sorted
\* cluster list with at most 8 members, and the RGB distance between every two
\* of its members exceeds 50.
C13_Exceeds ==
    LegacyDone =>
        /\ PaletteShape
        /\ \A i \in 1..Len(run.palette), j \in 1..Len(run.palette) :
              i # j => DistanceSquared(run.palette[i].rgb, run.palette[j].rgb)
                          > MinDistance * MinDistance

\* C13 (amended): the balanced palette is a subsequence of the count-sorted
\* cluster list with at most 8 members, and the RGB distance between every two
\* of its members is at least 50: a cluster exactly 50 away from every nearer
\* member is accepted.
C13_AtLeast ==
    LegacyDone =>
        /\ PaletteShape
        /\ \A i \in 1..Len(run.palette), j \in 1..Len(run.palette) :
              i # j => ~DistanceBelow(run.palette[i].rgb, run.palette[j].rgb, MinDistance)

\* C13 witness: a palette of eight members, two of them exactly 50 apart,
\* built by passing over a cluster too similar to an accepted member.
C13_Witness ==
    /\ LegacyDone
    /\ Len(run.palette) = MaxPaletteSize
    /\ \E i \in 1..Len(run.palette), j \in 1..Len(run.palette) :
          DistanceSquared(run.palette[i].rgb, run.palette[j].rgb) = MinDistance * MinDistance
    /\ \E k \in 1..Len(run.groupedColors) :
          /\ \A i \in 1..Len(run.palette) : run.palette[i] # run.groupedColors[k]
          /\ \E i \in 1..Len(run.palette) :
                /\ DistanceBelow(run.groupedColors[k].rgb, run.palette[i].rgb, MinDistance)
                /\ run.palette[i].count >= run.groupedColors[k].count

(***************************************************************************)
(* Hue-rotation palettes: claim C14                                        *)
(***************************************************************************)
\* the colours a palette builds, i.e. all but the base colour it starts with
Built(palette) == Tail(palette)

AllBuilt ==
    Built(conv.palettes.complementary) \o Built(conv.palettes.analogous)
        \o Built(conv.palettes.triadic) \o Built(conv.palettes.splitComplementary)

\* the palette has, at positions i of ks, the base's hue rotated by ks[i]
\* modulo 360 at the base's saturation and lightness
HasRotations(palette, ks) ==
    \A i \in 1..Len(ks) :
        palette[i + 1].hsl = [h |-> (conv.hsl.h + ks[i]) % 360, s |-> conv.hsl.s,
                              l |-> conv.hsl.l]

RotationsRecorded ==
    /\ HasRotations(conv.palettes.complementary, <<180>>)
    /\ HasRotations(conv.palettes.triadic, <<120, 240>>)
    /\ HasRotations(conv.palettes.splitComplementary, <<150, 210>>)
    /\ HasRotations(conv.palettes.analogous, <<330, 30>>)
    /\ \A i \in 1..Len(AllBuilt) :
          AllBuilt[i].rgb = hslToRgb(AllBuilt[i].hsl.h, AllBuilt[i].hsl.s, AllBuilt[i].hsl.l)

\* C14 (as stated): the palettes record the scheme's hue rotations modulo 360
\* at the base's saturation and lightness, every recorded hue lies in 0..359,
\* and each built colour's rgb is hslToRgb of its recorded hsl.
C14_HueRotations ==
    conv.stage = "palettes" =>
        /\ RotationsRecorded
        /\ \A i \in 1..Len(AllBuilt) : AllBuilt[i].hsl.h \in 0..359

\* C14, the part that holds for every base: the rotations are recorded modulo
\* 360, each rotated hue lies in 0..359, every built colour's rgb is hslToRgb
\* of its own hsl, and a hue outside 0..359 is the base's own hue of 360.
C14_RotatedHues ==
    conv.stage = "palettes" =>
        /\ RotationsRecorded
        /\ \A i \in 1..Len(AllBuilt) :
              AllBuilt[i].hsl.h \in 0..359 \/ AllBuilt[i].hsl.h = conv.hsl.h

(***************************************************************************)
(* Gradients: claims C15 to C19                                            *)
(***************************************************************************)
Collected == grad.stage = "done" /\ grad.api = "generateGradientCollection"

Generated6 == grad.stage = "done" /\ grad.api = "generateGradients"

\* C15: with fewer than two colours generateGradients returns an empty list
\* without an error, and generateGradientCollection throws and produces no
\* collection; with two colours or more neither does.
C15_TooFewColors ==
    /\ (grad.api = "generateGradients" /\ grad.stage # "input")
          => /\ ~grad.threw
             /\ (Len(grad.colors) < 2) <=> (grad.gradients = <<>>)
    /\ (grad.api = "generateGradientCollection" /\ grad.stage # "input")
          => /\ (Len(grad.colors) < 2) <=> grad.threw
             /\ grad.threw <=> (grad.stage = "error")
             /\ grad.threw => (grad.message = TooFewColors /\ grad.gradients = <<>>)
             /\ ~grad.threw => grad.gradients # <<>>

\* C15 witness: the collection refused a single colour.
C15_Witness ==
    /\ grad.stage = "error"
    /\ Len(grad.colors) = 1
    /\ grad.threw

\* position comparisons on fractions with a positive denominator
PosLeq(a, b) == a[1] * b[2] <= b[1] * a[2]

PosLess(a, b) == a[1] * b[2] < b[1] * a[2]

PosIs(a, n) == a[1] = n * a[2]

\* C16 (as stated): for 2 to 10 colours every stop of every linear or radial
\* gradient of generateGradientCollection has a position in [0, 100] and
\* every stop of every conic gradient a position in [0, 360).
C16_StopPositions ==
    Collected =>
        \A i \in 1..Len(grad.gradients) :
            \A k \in 1..Len(grad.gradients[i].stops) :
                LET pos == grad.gradients[i].stops[k].position
                IN  /\ PosLeq(<<0, 1>>, pos)
                    /\ grad.gradients[i].type \in {"linear", "radial"}
                          => PosLeq(pos, <<100, 1>>)
                    /\ grad.gradients[i].type = "conic" => PosLess(pos, <<360, 1>>)

\* C16, the part that holds: the only positions out of range are those of the
\* fade pattern's fifth colour onwards (index * 25 and index * 25 + 12.5).
C16_OffTheFade ==
    Collected =>
        \A i \in 1..Len(grad.gradients) :
            \A k \in 1..Len(grad.gradients[i].stops) :
                LET pos == grad.gradients[i].stops[k].position
                IN  /\ PosLeq(<<0, 1>>, pos)
                    /\ (Head(grad.gradients[i].id) # "fade-pattern" \/ k < 10)
                          => /\ grad.gradients[i].type \in {"linear", "radial"}
                                   => PosLeq(pos, <<100, 1>>)
                             /\ grad.gradients[i].type = "conic"
                                   => PosLess(pos, <<360, 1>>)
                    /\ (Head(grad.gradients[i].id) = "fade-pattern" /\ k >= 10)
                          => PosLess(<<100, 1>>, pos)

\* the number of input colours a gradient uses, by the generator that made it
UsedColors(gradient) ==
    LET n == Len(grad.colors)
        kind == Head(gradient.id)
    IN  IF grad.api = "generateGradientCollection"
        THEN (IF kind \in {"basic", "smooth-interpolated"} THEN 2
              ELSE IF kind \in {"radial-center", "radial-corner"} THEN Min2(n, 3)
              ELSE n)
        ELSE (IF kind = "hue" THEN Min2(n, 5)
              ELSE IF kind \in {"lightness", "conic"} THEN Min2(n, 4)
              ELSE Min2(n, 3))

\* C17: in every gradient of generateGradientCollection and generateGradients
\* the stop positions never decrease in stop order, and a gradient that uses
\* N colours has at least N stops.
C17_StopsOrdered ==
    (Collected \/ Generated6) =>
        \A i \in 1..Len(grad.gradients) :
            LET stops == grad.gradients[i].stops
            IN  /\ \A k \in 1..(Len(stops) - 1) :
                      PosLeq(stops[k].position, stops[k + 1].position)
                /\ Len(stops) >= UsedColors(grad.gradients[i])

\* C17 witness: a collection over five colours whose stripes have stops at
\* equal positions.
C17_Witness ==
    /\ Collected
    /\ Len(grad.colors) = 5
    /\ \E i \in 1..Len(grad.gradients) :
          /\ grad.gradients[i].id = <<"striped">>
          /\ Len(grad.gradients[i].stops) = 10
          /\ grad.gradients[i].stops[2].position = grad.gradients[i].stops[3].position
          /\ PosLess(grad.gradients[i].stops[1].position,
                     grad.gradients[i].stops[2].position)

IsVariation(gradient) ==
    \E t \in 1..Len(gradient.tags) : gradient.tags[t] = "variation"

DirectionRendered(gradient) ==
    /\ gradient.css.direction = gradient.direction
    /\ gradient.preview.direction = gradient.direction

\* C18 (as stated): every directional variation of a linear gradient keeps
\* the stop list and has both css and preview regenerated with its new
\* direction, so the direction in each text is the gradient's direction.
C18_DirectionRegenerated ==
    /\ Collected =>
          \A i \in 1..Len(grad.gradients) :
              IsVariation(grad.gradients[i]) =>
                  /\ DirectionRendered(grad.gradients[i])
                  /\ \E b \in 1..VariedGradients :
                        /\ b <= Len(grad.gradients)
                        /\ grad.gradients[b].stops = grad.gradients[i].stops
    /\ grad.stage \in {"varied", "updated"} =>
          \A i \in 1..Len(grad.variations) :
              /\ DirectionRendered(grad.variations[i])
              /\ grad.variations[i].stops = grad.selected.stops

\* C18, the part that holds: the variations of generateGradientVariations and
\* the gradient of updateGradientDirection keep the stops and render the new
\* direction in both texts; a variation of generateVariations keeps the stops.
C18_PanelVariations ==
    /\ Collected =>
          \A i \in 1..Len(grad.gradients) :
              IsVariation(grad.gradients[i]) =>
                  \E b \in 1..VariedGradients :
                      /\ b <= Len(grad.gradients)
                      /\ grad.gradients[b].stops = grad.gradients[i].stops
    /\ grad.stage \in {"varied", "updated"} =>
          \A i \in 1..Len(grad.variations) :
              /\ DirectionRendered(grad.variations[i])
              /\ grad.variations[i].stops = grad.selected.stops

\* C19: for N >= 2 colours generateBasicGradients emits one two-stop linear
\* gradient per adjacent pair, the first colour at 0 and the second at 100,
\* N - 1 in all, and the gradient of all the colours only when N >= 3.
C19_BasicGradients ==
    (Collected /\ grad.options.maxGradients = DefaultMaxGradients) =>
        LET n == Len(grad.colors)
            gs == grad.gradients
            pairwise == {i \in 1..Len(gs) : Head(gs[i].id) = "basic" /\ ~IsVariation(gs[i])}
            multi == {i \in 1..Len(gs) : gs[i].id = <<"multi-color">>}
        IN  /\ pairwise = 1..(n - 1)
            /\ \A i \in pairwise :
                  /\ gs[i].type = "linear"
                  /\ Len(gs[i].stops) = 2
                  /\ gs[i].stops[1].color = grad.colors[i]
                  /\ PosIs(gs[i].stops[1].position, 0)
                  /\ gs[i].stops[2].color = grad.colors[i + 1]
                  /\ PosIs(gs[i].stops[2].position, 100)
            /\ multi = (IF n >= 3 THEN {n} ELSE {})

\* C19 witness: two colours gave one pairwise gradient and no gradient of
\* all the colours.
C19_Witness ==
    /\ Collected
    /\ grad.options.maxGradients = DefaultMaxGradients
    /\ Len(grad.colors) = 2
    /\ Head(grad.gradients[1].id) = "basic"
    /\ grad.gradients[2].id = <<"hue-sorted">>

(***************************************************************************)
(* Contrast levels: claim C20                                              *)
(***************************************************************************)
LevelRank(level) ==
    CASE level = "Fail" -> 0
      [] level = "AA Large" -> 1
      [] level = "AA" -> 2
      [] level = "AAA" -> 3

\* C20: evaluateContrast gives AAA from 7, AA from 4.5 below 7, "AA Large"
\* from 3 below 4.5 and Fail below 3; AAA and AA set the three flags, "AA
\* Large" only largeText and uiComponents, Fail none; and no smaller ratio
\* gets a higher level.
C20_ContrastLevels ==
    contrast.stage = "done" =>
        LET n == contrast.ratio[1]
            d == contrast.ratio[2]
            result == contrast.contrastResult
        IN  /\ result.ratio = contrast.ratio
            /\ result.level = "AAA" <=> n >= 7 * d
            /\ result.level = "AA" <=> (2 * n >= 9 * d /\ n < 7 * d)
            /\ result.level = "AA Large" <=> (n >= 3 * d /\ 2 * n < 9 * d)
            /\ result.level = "Fail" <=> n < 3 * d
            /\ result.normalText <=> result.level \in {"AAA", "AA"}
            /\ result.largeText <=> result.level \in {"AAA", "AA", "AA Large"}
            /\ result.uiComponents <=> result.level \in {"AAA", "AA", "AA Large"}
            /\ \A lower \in Ratios :
                  lower[1] * d <= n * lower[2]
                      => LevelRank(evaluateContrast(lower).level) <= LevelRank(result.level)

\* C20 witness: the ratio 4.5 itself was evaluated and is AA with the three
\* flags set.
C20_Witness ==
    /\ contrast.stage = "done"
    /\ contrast.ratio = <<9, 2>>
    /\ contrast.contrastResult.level = "AA"
    /\ contrast.contrastResult.normalText
    /\ contrast.contrastResult.largeText
    /\ contrast.contrastResult.uiComponents

(***************************************************************************)
(* Contrast suggestions: claims C21, C22 and C30                           *)
(***************************************************************************)
Suggested == contrast.stage = "suggested"

ValidBase ==
    /\ StartsWith(contrast.baseColor, <<"#">>) \/ StartsWith(contrast.baseColor, <<"r", "g", "b">>)
    /\ RgbOfText(contrast.baseColor) # NoRgb

GrayLadder == {GrayHex(GrayStep * k) : k \in 0..15}

HasColor(color) ==
    \E k \in 1..Len(contrast.suggestions) : contrast.suggestions[k].color = color

\* C21: for a valid base colour and a target ratio suggestBetterContrast
\* returns at most 5 entries, each white, black or a gray of the step-17
\* ladder, each with its contrast ratio against the base, which is at least
\* the target, in ratio-descending order.
C21_Suggestions ==
    (Suggested /\ ValidBase) =>
        LET list == contrast.suggestions
        IN  /\ Len(list) <= 5
            /\ \A k \in 1..Len(list) :
                  /\ list[k].color \in {White, Black} \cup GrayLadder
                  /\ list[k].ratio = getContrastRatio(contrast.baseColor, list[k].color)
                  /\ list[k].ratio[1] * contrast.targetRatio[2]
                        >= contrast.targetRatio[1] * list[k].ratio[2]
            /\ \A k \in 1..(Len(list) - 1) :
                  /\ list[k].ratio[2] = list[k + 1].ratio[2]
                  /\ list[k].ratio[1] >= list[k + 1].ratio[1]

\* C21 witness: five suggestions for #3B82F6 at the target 1.5, the first
\* strictly better than the last, white pushed first and ranked fourth.
C21_Witness ==
    /\ Suggested
    /\ contrast.baseColor = <<"#", "3", "B", "8", "2", "F", "6">>
    /\ contrast.targetRatio = <<3, 2>>
    /\ Len(contrast.suggestions) = 5
    /\ contrast.suggestions[1].color = Black
    /\ contrast.suggestions[4].color = White
    /\ contrast.suggestions[1].ratio[1] > contrast.suggestions[5].ratio[1]

WhiteMeets == Meets(getContrastRatio(contrast.baseColor, White), contrast.targetRatio)

C30_NoSameColor ==
    Suggested =>
        \A i, j \in 1..Len(contrast.suggestions) :
            i # j => ToUpperCase(contrast.suggestions[i].color)
                        # ToUpperCase(contrast.suggestions[j].color)

\* C30, the part that holds: no two entries have the same text, black is
\* never entered twice, and the only colour entered twice is white, as
\* "#FFFFFF" and "#ffffff".
C30_NoSameText ==
    Suggested =>
        \A i, j \in 1..Len(contrast.suggestions) :
            i # j =>
                /\ contrast.suggestions[i].color # contrast.suggestions[j].color
                /\ ToUpperCase(contrast.suggestions[i].color)
                        = ToUpperCase(contrast.suggestions[j].color)
                      => ToUpperCase(contrast.suggestions[i].color) = White

(***************************************************************************)
(* Clustering and the pixel scan: claims C23 and C24                       *)
(***************************************************************************)
RunDone == run.stage = "done"

UsedThreshold ==
    IF run.engine = "analyzeImage" THEN LegacyThreshold ELSE run.options.groupingThreshold

ExactRgb(i) == ColorUtils_hexToRgb(run.colorCounts[i].hex)

\* exact colours i and j are at a distance strictly below the threshold
Near(i, j) == DistanceSquared(ExactRgb(i), ExactRgb(j)) < UsedThreshold * UsedThreshold

IsRepresentative(i) ==
    \E g \in 1..Len(run.groupedColors) : run.groupedColors[g].hex = run.colorCounts[i].hex

\* the earliest representative the exact colour i is merged into (itself when
\* it opens a cluster)
HomeOf(i) ==
    CHOOSE j \in 1..i :
        /\ IsRepresentative(j)
        /\ j = i \/ Near(i, j)
        /\ \A e \in 1..(j - 1) : ~(IsRepresentative(e) /\ Near(i, e))

RECURSIVE CountOfHome(_, _)
CountOfHome(hex, i) ==
    IF i = 0 THEN 0
    ELSE CountOfHome(hex, i - 1)
            + (IF run.colorCounts[HomeOf(i)].hex = hex THEN run.colorCounts[i].count ELSE 0)

\* C23: groupSimilarColors takes the exact colours in insertion order; a
\* colour opens a cluster exactly when no earlier representative is at a
\* distance strictly below the threshold, and otherwise adds its count to
\* the earliest such representative; a representative keeps its hex and rgb;
\* a colour exactly at the threshold is not merged.
C23_Clusters ==
    RunDone =>
        LET groups == run.groupedColors
            exact == run.colorCounts
        IN  /\ \A i \in 1..Len(exact) :
                  IsRepresentative(i)
                      <=> \A j \in 1..(i - 1) : IsRepresentative(j) => ~Near(i, j)
            /\ \A g \in 1..Len(groups) :
                  /\ \E i \in 1..Len(exact) :
                        /\ exact[i].hex = groups[g].hex
                        /\ groups[g].rgb = ExactRgb(i)
                  /\ \A h \in 1..Len(groups) : groups[h].hex = groups[g].hex => h = g
                  /\ groups[g].count = CountOfHome(groups[g].hex, Len(exact))
            /\ run.engine = "ColorAnalysisEngine.analyzeImage" =>
                  \A g, h \in 1..Len(groups) :
                      g < h => \E i, j \in 1..Len(exact) :
                                  /\ i < j
                                  /\ exact[i].hex = groups[g].hex
                                  /\ exact[j].hex = groups[h].hex

\* C23 witness: at the threshold 10 the colours (0, 9, 0) and (10, 9, 0),
\* exactly 10 apart, are two clusters, and (14, 17, 0) was merged into the
\* second.
C23_Witness ==
    /\ RunDone
    /\ run.engine = "ColorAnalysisEngine.analyzeImage"
    /\ run.options.groupingThreshold = 10
    /\ Len(run.colorCounts) = 3
    /\ Len(run.groupedColors) = 2
    /\ run.groupedColors[1].rgb = [r |-> 0, g |-> 9, b |-> 0]
    /\ run.groupedColors[2].rgb = [r |-> 10, g |-> 9, b |-> 0]
    /\ run.groupedColors[2].count = 2
    /\ ExactRgb(3) = [r |-> 14, g |-> 17, b |-> 0]

IsValidPixel(i) == run.pixels[i].a >= AlphaCutoff

RECURSIVE SumValid(_, _)
SumValid(channel, i) ==
    IF i = 0 THEN 0
    ELSE SumValid(channel, i - 1) + (IF IsValidPixel(i) THEN run.pixels[i][channel] ELSE 0)

PixelsOf(hex) ==
    {i \in 1..Len(run.pixels) :
        /\ IsValidPixel(i)
        /\ ColorUtils_hexToRgb(hex)
              = [r |-> run.pixels[i].r, g |-> run.pixels[i].g, b |-> run.pixels[i].b]}

\* C24: the exact-colour counts, the running R, G and B sums and the
\* valid-pixel count are those of the pixels with alpha at least 128; a pixel
\* with alpha below 128 contributes to none of them.
C24_AlphaCutoff ==
    RunDone =>
        /\ run.validPixels = Cardinality({i \in 1..Len(run.pixels) : IsValidPixel(i)})
        /\ run.totals = [r |-> SumValid("r", Len(run.pixels)),
                         g |-> SumValid("g", Len(run.pixels)),
                         b |-> SumValid("b", Len(run.pixels))]
        /\ \A k \in 1..Len(run.colorCounts) :
              /\ run.colorCounts[k].count = Cardinality(PixelsOf(run.colorCounts[k].hex))
              /\ run.colorCounts[k].count > 0
        /\ \A i \in 1..Len(run.pixels) :
              IsValidPixel(i) =>
                  \E k \in 1..Len(run.colorCounts) : i \in PixelsOf(run.colorCounts[k].hex)
        /\ \A k, m \in 1..Len(run.colorCounts) :
              run.colorCounts[k].hex = run.colorCounts[m].hex => k = m

\* C24 witness: a buffer with a pixel of alpha 127 and a pixel of alpha 128;
\* only the first is left out.
C24_Witness ==
    /\ RunDone
    /\ Len(run.pixels) = 3
    /\ run.pixels[1].a = 127
    /\ run.pixels[2].a = 128
    /\ run.pixels[3].a = 255
    /\ run.validPixels = 2
    /\ run.totals = [r |-> 255 + run.pixels[3].r, g |-> run.pixels[3].g, b |-> 0]

(***************************************************************************)
(* The gradient collection: claim C25                                      *)
(***************************************************************************)
\* the generators' outputs in the order basic, sorted, interpolated, radial,
\* conic, advanced
InFixedOrder(colors) ==
    generateBasicGradients(colors) \o generateSortedGradients(colors)
        \o generateInterpolatedGradients(colors) \o generateRadialGradients(colors)
        \o generateConicGradients(colors) \o generateAdvancedPatterns(colors)

IsPrefix(short, long) == Len(short) <= Len(long) /\ short = SubSeq(long, 1, Len(short))

\* C25: generateGradientCollection returns at most maxGradients gradients, a
\* prefix of the generators' outputs in the order basic, sorted, interpolated,
\* radial, conic, advanced, variations; the variations are there only with
\* includeVariations, are built from the linear gradients among the first 5
\* and are at most 10; metadata.gradientCount is the number returned and
\* metadata.colorCount the number of input colours.
C25_Collection ==
    Collected =>
        LET fixed == InFixedOrder(grad.colors)
            variations == generateVariations(Slice(fixed, 5))
            returned == grad.gradients
        IN  /\ Len(returned) <= grad.options.maxGradients
            /\ IsPrefix(returned,
                        IF grad.options.includeVariations THEN fixed \o variations ELSE fixed)
            /\ Len(returned) = Min2(grad.options.maxGradients,
                                    Len(fixed) + (IF grad.options.includeVariations
                                                  THEN Len(variations) ELSE 0))
            /\ Len(variations) <= 10
            /\ \A i \in 1..Len(returned) :
                  IsVariation(returned[i]) <=> i > Len(fixed)
            /\ \A i \in 1..Len(returned) :
                  IsVariation(returned[i]) =>
                      /\ grad.options.includeVariations
                      /\ \E b \in 1..5 :
                            /\ returned[b].type = "linear"
                            /\ returned[b].stops = returned[i].stops
                            /\ IsPrefix(returned[b].id, returned[i].id)
            /\ grad.metadata.gradientCount = Len(returned)
            /\ grad.metadata.colorCount = Len(grad.colors)

\* C25 witness: three colours with variations give 11 gradients and 10
\* variations, and maxGradients 20 cuts the last variation off.
C25_Witness ==
    /\ Collected
    /\ Len(grad.colors) = 3
    /\ grad.options = [includeVariations |-> TRUE, maxGradients |-> 20]
    /\ Len(grad.gradients) = 20
    /\ ~IsVariation(grad.gradients[11])
    /\ IsVariation(grad.gradients[12])
    /\ grad.metadata = [colorCount |-> 3, gradientCount |-> 20]


(***************************************************************************)
(* Hue interpolation: claim C26                                            *)
(***************************************************************************)

Interpolated == grad.stage = "interpolated"

\* C26: for every pair of hues an interpolation is given, the adjusted hue
\* difference lies in [-180, 180] and every hue passed to hslToHex lies in
\* [0, 360), whatever the step count
C26_ShorterArc ==
    Interpolated =>
        /\ grad.hDiff >= -180 /\ grad.hDiff <= 180
        /\ (grad.hDiff - (grad.hsl2.h - grad.hsl1.h)) % 360 = 0
        /\ Len(grad.passed) = grad.steps
        /\ \A k \in 1..Len(grad.passed) :
              /\ grad.passed[k].h >= 0
              /\ grad.passed[k].h < 360 * (grad.steps - 1)

\* An interpolation across the 0 / 360 seam: from hue 350 to hue 10 the
\* difference is 20 and the hues pass through 0
C26_Witness ==
    /\ Interpolated
    /\ grad.hsl1.h = 350 /\ grad.hsl2.h = 10 /\ grad.steps = 5
    /\ grad.hDiff = 20
    /\ grad.passed[3].h = 0


(***************************************************************************)
(* The colour history of the main page: claim C27                          *)
(***************************************************************************)

NoDuplicate(history) ==
    \A i, j \in 1..Len(history) : history[i] = history[j] => i = j

EnteredValid(text) == ~Blank(text) /\ processColor(text).isValid

\* C27: the history never holds an entry twice, never more than 10 entries,
\* and its first entry is the hex of the most recently entered valid colour:
\* the hex of inputColor when that is valid, and left alone by every other
\* input
C27_History ==
    /\ [](/\ NoDuplicate(colorHistory)
          /\ Len(colorHistory) <= 10
          /\ (mounted /\ EnteredValid(inputColor)) =>
                 /\ colorHistory # <<>>
                 /\ colorHistory[1] = processColor(inputColor).hex)
    /\ [][(inputColor' # inputColor /\ ~EnteredValid(inputColor'))
              => colorHistory' = colorHistory]_vars

\* A full history takes an eleventh colour: the new hex is first, the
\* oldest entry is gone
C27_Witness ==
    /\ Len(colorHistory) = HistoryLimit
    /\ inputColor = <<"#","B","B","B","B","B","B">>
    /\ colorHistory[1] = inputColor
    /\ colorHistory[HistoryLimit] = TypedColor(2)
    /\ \A i \in 1..Len(colorHistory) : colorHistory[i] # TypedColor(1)


(***************************************************************************)
(* The colours of the gradient generator panel: claim C28                  *)
(***************************************************************************)

OnPanel == grad.stage = "panel"

Uploading == run.stage = "upload"

Pending(k) == run.calls[k].status = "pending"

NonePending == \A k \in 1..Len(run.calls) : ~Pending(k)

\* C29: isAnalyzing stays true while the analysis of the most recent upload
\* is pending, and once every analysis has completed the result displayed is
\* the one of the most recently uploaded image
C29_LatestUploadWins ==
    (Uploading /\ run.latest > 0) =>
        /\ Pending(run.latest) => run.isAnalyzing
        /\ (NonePending /\ run.calls[run.latest].status = "resolved") =>
               run.analysisResult =
                   AnalysisOf(run.calls[run.latest].file.pixels, PanelAnalysisOptions)

\* The part of C29 that does not depend on the order of completion: the
\* preview is the most recent image, and every result displayed is the
\* analysis of one uploaded file alone
C29_OwnAccumulators ==
    (Uploading /\ run.latest > 0) =>
        /\ run.uploadedImage = run.calls[run.latest].file.name
        /\ run.analysisResult # NoResult =>
               \E k \in 1..Len(run.calls) :
                   /\ run.calls[k].status = "resolved"
                   /\ run.analysisResult =
                          AnalysisOf(run.calls[k].file.pixels, PanelAnalysisOptions)

\* The second upload resolved first, the first one last: the result of the
\* first image is displayed under the preview of the second
C29_StaleResult ==
    /\ Uploading
    /\ Len(run.calls) = 2 /\ run.latest = 2 /\ NonePending
    /\ run.calls[1].file.name = "first.png" /\ run.calls[2].file.name = "second.png"
    /\ run.uploadedImage = "second.png"
    /\ run.analysisResult = AnalysisOf(run.calls[1].file.pixels, PanelAnalysisOptions)
    /\ run.analysisResult # AnalysisOf(run.calls[2].file.pixels, PanelAnalysisOptions)

====
